---- MODULE Spec2Model ----
(***************************************************************************)
(* A model of the OpenBIM-DL runtime (src/openbimdl): the AST builder      *)
(* (ast.py), the structural/catalog checker (typecheck.py), the semantic   *)
(* graph (graph.py), the expression evaluator (evaluator.py) and the       *)
(* run_recipe pipeline (runner.py).                                        *)
(*                                                                         *)
(* Conventions.                                                            *)
(*  - A Python dict is a TLA+ record; d.get(k) is Get(d, k, default).      *)
(*    A key holding None and a missing key are the same record without     *)
(*    that field wherever the code reads the key with .get().              *)
(*  - A string slot that may hold None holds "" for None: every such slot  *)
(*    is only tested for truthiness or membership by the code.             *)
(*  - A function that may raise returns [ok |-> TRUE, val |-> v] or        *)
(*    [ok |-> FALSE, exc |-> <exception class>].                           *)
(*  - Runtime values of the expression language are tagged records         *)
(*    (none, bool, num, str); a num is the rational n/d, f says float.     *)
(***************************************************************************)
EXTENDS Integers, Sequences, FiniteSets, TLC

\* ------------------------------------------------------------------
\* Generic helpers
\* ------------------------------------------------------------------

Get(r, f, dflt) == IF f \in DOMAIN r THEN r[f] ELSE dflt

Has(r, f) == f \in DOMAIN r

Ok(v) == [ok |-> TRUE, val |-> v]

Raise(e) == [ok |-> FALSE, exc |-> e]

Empty == [k \in {} |-> 0]

\* a non-dict Python value (None, a token, a number) met where a dict is expected
NonDict == [nondict |-> TRUE]

IsDict(raw) == ~Has(raw, "nondict")

Range(s) == {s[i] : i \in 1..Len(s)}

RECURSIVE Concat(_)
Concat(ss) ==
    IF ss = <<>> THEN <<>> ELSE Head(ss) \o Concat(Tail(ss))

RECURSIVE SumSeq(_)
SumSeq(s) ==
    IF s = <<>> THEN 0 ELSE Head(s) + SumSeq(Tail(s))

\* all sequences over S of length at most n
SeqsUpTo(S, n) == UNION {[1..k -> S] : k \in 0..n}

\* [f(x) for x in s]
MapSeq(s, f(_)) == [i \in 1..Len(s) |-> f(s[i])]

\* a failed result is passed on; the value of a good one is given to k
Then(r, k(_)) == IF r.ok THEN k(r.val) ELSE r

\* two results in evaluation order
Then2(r1, r2, k(_, _)) ==
    IF ~r1.ok THEN r1 ELSE IF ~r2.ok THEN r2 ELSE k(r1.val, r2.val)

\* the first failed result of a sequence of results, or the list of their values
AllOk(rs) ==
    IF \E i \in 1..Len(rs) : ~rs[i].ok
    THEN rs[CHOOSE i \in 1..Len(rs) : ~rs[i].ok /\ \A j \in 1..(i-1) : rs[j].ok]
    ELSE Ok([i \in 1..Len(rs) |-> rs[i].val])

\* ------------------------------------------------------------------
\* Runtime values
\* ------------------------------------------------------------------

None == [t |-> "none"]

Bool(b) == [t |-> "bool", b |-> b]

RECURSIVE Gcd(_, _)
Gcd(a, b) ==
    IF b = 0 THEN a ELSE Gcd(b, a % b)

Abs(a) == IF a < 0 THEN -a ELSE a

\* the rational n/d in lowest terms, d > 0
Rat(n, d, f) ==
    LET g == Gcd(Abs(n), Abs(d))
        s == IF d < 0 THEN -1 ELSE 1
    IN  [t |-> "num", n |-> (s * n) \div g, d |-> (s * d) \div g, f |-> f]

Int_(n) == Rat(n, 1, FALSE)

Float(n) == Rat(n, 1, TRUE)

Str(s) == [t |-> "str", s |-> s]

\* ------------------------------------------------------------------
\* ast.py: Expr
\* ------------------------------------------------------------------

ExprKinds == {"number", "string", "bool", "null", "call", "access", "binop", "unop"}

\* Expr(kind="null", data={"value": None})
NullExpr == [kind |-> "null", data |-> [value |-> None]]

\* isinstance(raw, Expr): an Expr has the fields kind and data
IsExpr(raw) == Has(raw, "kind") /\ Has(raw, "data")

\* raw.get(k, []) iterated by the code: an explicit None under k (written as
\* the field k_none) is not iterable
ListOrRaise(raw, k, k_none) ==
    IF Has(raw, k_none) THEN Raise("TypeError") ELSE Ok(Get(raw, k, <<>>))

RECURSIVE Expr_from_raw(_)
Expr_from_raw(raw) ==
    IF IsExpr(raw) THEN Ok(raw)
    ELSE IF ~IsDict(raw) \/ ~Has(raw, "_expr") THEN Ok(NullExpr)
    ELSE IF raw._expr \notin ExprKinds THEN Ok(NullExpr)
    ELSE IF raw._expr = "binop" THEN
        LET mk(l, r) == Ok([kind |-> "binop",
                            data |-> [op |-> Get(raw, "op", ""), left |-> l, right |-> r]])
        IN  Then2(Expr_from_raw(Get(raw, "left", NonDict)),
                  Expr_from_raw(Get(raw, "right", NonDict)), mk)
    ELSE IF raw._expr = "unop" THEN
        LET mk(v) == Ok([kind |-> "unop", data |-> [op |-> Get(raw, "op", ""), value |-> v]])
        IN  Then(Expr_from_raw(Get(raw, "value", NonDict)), mk)
    ELSE IF raw._expr = "call" THEN
        LET mk(args)  == Ok([kind |-> "call", data |-> [fn |-> Get(raw, "fn", ""), args |-> args]])
            conv(lst) == Then(AllOk(MapSeq(lst, Expr_from_raw)), mk)
        IN  Then(ListOrRaise(raw, "args", "args_none"), conv)
    ELSE IF raw._expr = "access" THEN
        LET index(e)  == Ok([kind |-> "index", expr |-> e])
            part(p)   == IF IsDict(p) /\ Get(p, "kind", "") = "index"
                         THEN Then(Expr_from_raw(Get(p, "expr", NonDict)), index)
                         ELSE Ok(p)
            mk(parts) == Ok([kind |-> "access", data |-> [parts |-> parts]])
            conv(lst) == Then(AllOk(MapSeq(lst, part)), mk)
        IN  Then(ListOrRaise(raw, "parts", "parts_none"), conv)
    ELSE Ok([kind |-> raw._expr, data |-> [value |-> Get(raw, "value", None)]])

\* ------------------------------------------------------------------
\* ast.py: Stmt, Block, Document
\* ------------------------------------------------------------------

StmtKinds ==
    {"assign", "emit", "select", "where", "label", "format", "path", "by",
     "feature", "node_features", "edge_features"}

RECURSIVE Stmt_from_raw(_)
Stmt_from_raw(raw) ==
    LET kind == Get(raw, "type", "")
        with_expr(e)        == Ok([kind |-> kind, data |-> [raw EXCEPT !.expr = e]])
        with_args(args)     == Ok([kind |-> "by", data |-> ("args" :> args) @@ raw])
        conv_args(lst)      == Then(AllOk(MapSeq(lst, Expr_from_raw)), with_args)
        with_features(fs)   == Ok([kind |-> kind, data |-> [features |-> fs]])
        conv_features(lst)  == Then(AllOk(MapSeq(SelectSeq(lst, IsDict), Stmt_from_raw)),
                                    with_features)
    IN  IF kind \notin StmtKinds
        THEN Ok([kind |-> "assign",
                 data |-> [name |-> "__invalid__", expr |-> [kind |-> "null", data |-> Empty]]])
        ELSE IF kind \in {"assign", "emit", "select", "where", "label", "feature"} THEN
            IF Has(raw, "expr")
            THEN Then(Expr_from_raw(raw.expr), with_expr)
            ELSE Ok([kind |-> kind, data |-> raw])
        ELSE IF kind = "by" THEN
            Then(ListOrRaise(raw, "args", "args_none"), conv_args)
        ELSE IF kind \in {"node_features", "edge_features"} THEN
            Then(ListOrRaise(raw, "features", "features_none"), conv_features)
        ELSE Ok([kind |-> kind, data |-> raw])

\* for s in body or []: if isinstance(s, dict) and "type" in s
Block_from_raw(kind, body) ==
    LET keep(s)   == IsDict(s) /\ Has(s, "type")
        mk(stmts) == Ok([kind |-> kind, statements |-> stmts])
    IN  Then(AllOk(MapSeq(SelectSeq(body, keep), Stmt_from_raw)), mk)

\* the value of an optional block that is None
NoBlock == [kind |-> "none", statements |-> <<>>]

IsBlock(b) == b.kind # "none"

\* the blocks of the document, built in the order source, views, derive,
\* synthesize, split, exports
BuildDocument(parsed) ==
    LET view_of(v)   == Block_from_raw("view", v.body)
        export_of(e) == Block_from_raw("export", e.body)
        mk(source, views, derive, synth, split, exports) ==
            IF ~source.ok THEN source
            ELSE IF ~views.ok THEN views
            ELSE IF ~derive.ok THEN derive
            ELSE IF ~synth.ok THEN synth
            ELSE IF ~split.ok THEN split
            ELSE IF ~exports.ok THEN exports
            ELSE Ok([source |-> source.val, views |-> views.val, derive |-> derive.val,
                     synthesize |-> synth.val, split |-> split.val,
                     exports |-> exports.val])
    IN  mk(Block_from_raw("source", parsed.source.body),
           AllOk(MapSeq(Get(parsed, "views", <<>>), view_of)),
           Block_from_raw("derive", parsed.derive.body),
           IF Has(parsed, "synthesize")
           THEN Block_from_raw("synthesize", parsed.synthesize.body)
           ELSE Ok(NoBlock),
           IF Has(parsed, "split")
           THEN Block_from_raw("split", parsed.split.body)
           ELSE Ok(NoBlock),
           AllOk(MapSeq(Get(parsed, "exports", <<>>), export_of)))

\* from_parsed accepting an empty export list
Document_from_parsed_any_exports(parsed) ==
    IF ~Has(parsed, "source") THEN Raise("ValueError")
    ELSE IF ~Has(parsed, "derive") THEN Raise("ValueError")
    ELSE IF ~Has(parsed, "exports") THEN Raise("ValueError")
    ELSE BuildDocument(parsed)

\* the three required blocks are tested first, then every block is built
Document_from_parsed(parsed) ==
    IF ~Has(parsed, "source") THEN Raise("ValueError")
    ELSE IF ~Has(parsed, "derive") THEN Raise("ValueError")
    ELSE IF Get(parsed, "exports", <<>>) = <<>> THEN Raise("ValueError")
    ELSE BuildDocument(parsed)

\* ------------------------------------------------------------------
\* typecheck.py
\* ------------------------------------------------------------------

BUILTIN_FUNCTIONS_V01 ==
    {"guid", "id", "exists", "coalesce", "hash", "seed",
     "ifc.type", "ifc.schema", "ifc.attr", "ifc.name", "ifc.predefined", "ifc.is_a",
     "ifc.global_placement",
     "pset.get", "pset.has", "pset.keys", "pset.list", "pset.text", "pset.numeric",
     "qto.get", "qto.has", "qto.net_area", "qto.net_volume", "qto.gross_area",
     "rel.out", "rel.in", "rel.edges", "rel.kinds",
     "contained_in", "container_chain", "type_of", "aggregates", "decomposes",
     "assigned_to", "connects_to", "voids", "fills", "spaces",
     "degree", "degree_in", "degree_out", "neighbors", "subgraph", "path_to",
     "geom.exists", "geom.bbox", "geom.centroid", "geom.dims", "geom.volume", "geom.area",
     "geom.orientation", "geom.signature", "geom.mesh", "geom.pointcloud",
     "text.describe", "text.concat", "text.lower", "text.normalize", "text.tokens",
     "ml.onehot", "ml.vocab", "ml.bucket", "ml.embed_hash", "ml.standardize",
     "synth.jitter_bbox", "synth.drop_pset", "synth.drop_feature", "synth.noise_numeric",
     "synth.upsample", "synth.downsample", "synth.permute_within",
     "building", "storey", "project", "system", "hash_group"}

\* the names of the model's universe that start with "synth." (str.startswith)
SynthPrefixed ==
    {"synth.jitter_bbox", "synth.drop_pset", "synth.drop_feature", "synth.noise_numeric",
     "synth.upsample", "synth.downsample", "synth.permute_within", "synth.custom"}

\* TypeDiagnostic; the message is a function of code, idx (the block index it
\* prints, -1 when it prints none) and fn (the name it prints, "" when none)
TypeDiagnostic(code, block, stmt_kind, stmt_name, idx, fn) ==
    [code |-> code, block |-> block, stmt_kind |-> stmt_kind, stmt_name |-> stmt_name,
     idx |-> idx, fn |-> fn]

HasKind(block, kinds) == \E i \in 1..Len(block.statements) : block.statements[i].kind \in kinds

_check_source(block) ==
    IF ~HasKind(block, {"path"})
    THEN <<TypeDiagnostic("SRC001", "source", "path", "", -1, "")>>
    ELSE <<>>

_check_view(block, index) ==
    IF ~HasKind(block, {"select"})
    THEN <<TypeDiagnostic("VIEW001", "view", "select", "", index, "")>>
    ELSE <<>>

_check_derive(block) ==
    IF ~HasKind(block, {"feature", "emit"})
    THEN <<TypeDiagnostic("DER001", "derive", "feature", "", -1, "")>>
    ELSE <<>>

_check_split(block) ==
    IF ~HasKind(block, {"by"})
    THEN <<TypeDiagnostic("SPL001", "split", "by", "", -1, "")>>
    ELSE <<>>

\* a checker that reports a missing path only for a block that has a format
_check_export_first_missing(block, index) ==
    IF ~HasKind(block, {"format"})
    THEN <<TypeDiagnostic("EXP001", "export", "format", "", index, "")>>
    ELSE IF ~HasKind(block, {"path"})
    THEN <<TypeDiagnostic("EXP002", "export", "path", "", index, "")>>
    ELSE <<>>

_check_export(block, index) ==
    (IF ~HasKind(block, {"format"})
     THEN <<TypeDiagnostic("EXP001", "export", "format", "", index, "")>>
     ELSE <<>>)
    \o
    (IF ~HasKind(block, {"path"})
     THEN <<TypeDiagnostic("EXP002", "export", "path", "", index, "")>>
     ELSE <<>>)

\* the call names of an expression without those inside call arguments
RECURSIVE _extract_calls_shallow(_)
_extract_calls_shallow(e) ==
    IF e.kind = "call" THEN
        LET fn == Get(e.data, "fn", "")
        IN  IF fn # "" THEN <<fn>> ELSE <<>>
    ELSE IF e.kind = "binop" THEN
        _extract_calls_shallow(e.data.left) \o _extract_calls_shallow(e.data.right)
    ELSE IF e.kind = "unop" THEN
        _extract_calls_shallow(e.data.value)
    ELSE IF e.kind = "access" THEN
        LET idx(p) == IF IsDict(p) /\ Get(p, "kind", "") = "index" /\ Has(p, "expr") /\ IsExpr(p.expr)
                      THEN _extract_calls_shallow(p.expr)
                      ELSE <<>>
        IN  Concat(MapSeq(Get(e.data, "parts", <<>>), idx))
    ELSE <<>>

\* the call names of an expression, in pre-order
RECURSIVE _extract_calls(_)
_extract_calls(e) ==
    IF e.kind = "call" THEN
        LET fn == Get(e.data, "fn", "")
        IN  (IF fn # "" THEN <<fn>> ELSE <<>>)
            \o Concat(MapSeq(SelectSeq(Get(e.data, "args", <<>>), IsExpr), _extract_calls))
    ELSE IF e.kind = "binop" THEN
        _extract_calls(e.data.left) \o _extract_calls(e.data.right)
    ELSE IF e.kind = "unop" THEN
        _extract_calls(e.data.value)
    ELSE IF e.kind = "access" THEN
        LET idx(p) == IF IsDict(p) /\ Get(p, "kind", "") = "index" /\ Has(p, "expr") /\ IsExpr(p.expr)
                      THEN _extract_calls(p.expr)
                      ELSE <<>>
        IN  Concat(MapSeq(Get(e.data, "parts", <<>>), idx))
    ELSE <<>>

_contains_prefix_call(expr) ==
    \E fn \in Range(_extract_calls(expr)) : fn \in SynthPrefixed

_check_synthesize(block) ==
    LET flagged(s) ==
            /\ s.kind \in {"assign", "feature", "emit"}
            /\ Has(s.data, "expr")
            /\ ~_contains_prefix_call(s.data.expr)
        diag(s) == TypeDiagnostic("SYN001", "synthesize", s.kind, Get(s.data, "name", ""), -1, "")
    IN  MapSeq(SelectSeq(block.statements, flagged), diag)

\* one FN001 per call name of the expression that is not in the catalog
UnknownCalls(expr, block_kind, stmt_kind, stmt_name) ==
    LET unknown(fn) == fn \notin BUILTIN_FUNCTIONS_V01
        diag(fn)    == TypeDiagnostic("FN001", block_kind, stmt_kind, stmt_name, -1, fn)
    IN  MapSeq(SelectSeq(_extract_calls(expr), unknown), diag)

_check_stmt_expr_calls(block_kind, st) ==
    (IF Has(st.data, "expr") /\ IsExpr(st.data.expr)
     THEN UnknownCalls(st.data.expr, block_kind, st.kind, Get(st.data, "name", ""))
     ELSE <<>>)
    \o
    (IF st.kind = "by"
     THEN LET fn     == Get(st.data, "fn", "")
              of_(a) == UnknownCalls(a, block_kind, "by", "")
          IN  (IF fn # "" /\ fn \notin BUILTIN_FUNCTIONS_V01
               THEN <<TypeDiagnostic("FN002", block_kind, "by", "", -1, fn)>>
               ELSE <<>>)
              \o Concat(MapSeq(SelectSeq(Get(st.data, "args", <<>>), IsExpr), of_))
     ELSE <<>>)

walk_block(block) ==
    LET check(st) == _check_stmt_expr_calls(block.kind, st)
    IN  Concat(MapSeq(block.statements, check))

_check_known_functions(doc) ==
    walk_block(doc.source)
    \o Concat(MapSeq(doc.views, walk_block))
    \o walk_block(doc.derive)
    \o (IF IsBlock(doc.synthesize) THEN walk_block(doc.synthesize) ELSE <<>>)
    \o (IF IsBlock(doc.split) THEN walk_block(doc.split) ELSE <<>>)
    \o Concat(MapSeq(doc.exports, walk_block))

\* the diagnostics type_check_document collects, in order (enumerate is 0-based)
CollectDiagnostics(doc) ==
    _check_source(doc.source)
    \o Concat([i \in 1..Len(doc.views) |-> _check_view(doc.views[i], i - 1)])
    \o _check_derive(doc.derive)
    \o (IF IsBlock(doc.synthesize) THEN _check_synthesize(doc.synthesize) ELSE <<>>)
    \o (IF IsBlock(doc.split) THEN _check_split(doc.split) ELSE <<>>)
    \o Concat([i \in 1..Len(doc.exports) |-> _check_export(doc.exports[i], i - 1)])
    \o _check_known_functions(doc)

\* a checker that raises on the first diagnostic only
type_check_document_first(doc) ==
    LET raise_if(diags) ==
            IF diags # <<>>
            THEN [ok |-> FALSE, exc |-> "TypeCheckError", diagnostics |-> <<Head(diags)>>]
            ELSE Ok(None)
    IN  raise_if(CollectDiagnostics(doc))

type_check_document(doc) ==
    LET raise_if(diags) ==
            IF diags # <<>>
            THEN [ok |-> FALSE, exc |-> "TypeCheckError", diagnostics |-> diags]
            ELSE Ok(None)
    IN  raise_if(CollectDiagnostics(doc))

\* ------------------------------------------------------------------
\* Python dicts that the code iterates: [key, val] pairs in insertion order
\* ------------------------------------------------------------------

DictHas(d, k) == \E i \in 1..Len(d) : d[i].key = k

DictGet(d, k, dflt) ==
    IF DictHas(d, k) THEN d[CHOOSE i \in 1..Len(d) : d[i].key = k].val ELSE dflt

\* d[k] = v: an existing key keeps its place
DictSet(d, k, v) ==
    IF DictHas(d, k)
    THEN [i \in 1..Len(d) |-> IF d[i].key = k THEN [key |-> k, val |-> v] ELSE d[i]]
    ELSE Append(d, [key |-> k, val |-> v])

DictValues(d) == [i \in 1..Len(d) |-> d[i].val]

DictKeys(d) == [i \in 1..Len(d) |-> d[i].key]

\* ------------------------------------------------------------------
\* ifc_loader.py: IFCModel (the model collaborator)
\* ------------------------------------------------------------------

\* An entity is [GlobalId, is_a, attrs]; GlobalId "" is an entity without one.

\* _index_entities: a later entity with the same GlobalId replaces the earlier
RECURSIVE _index_entities(_, _)
_index_entities(by_guid, entities) ==
    IF entities = <<>> THEN by_guid
    ELSE LET entity == Head(entities)
         IN  _index_entities(
                 IF entity.GlobalId # "" THEN DictSet(by_guid, entity.GlobalId, entity) ELSE by_guid,
                 Tail(entities))

IFCModel(entities, rels) ==
    [entities |-> entities, _by_guid |-> _index_entities(<<>>, entities), rels |-> rels]

\* the value of entity_by_guid for an id that is not indexed
NoEntity == [GlobalId |-> "", is_a |-> "", attrs |-> Empty, none |-> TRUE]

entity_by_guid(model, guid) == DictGet(model._by_guid, guid, NoEntity)

all_entities(model) == model.entities

\* getattr(entity, name), None on AttributeError
get_attr(entity, name) == Get(entity.attrs, name, None)

get_name(entity) == get_attr(entity, "Name")

\* ifcopenshell.util.element.get_psets is outside the repository: the
\* property sets of an entity are its attrs.psets, a dict of dicts, if any
get_psets(entity) == Get(entity.attrs, "psets", <<>>)

get_pset(entity, pset_name, prop_name) ==
    IF DictHas(get_psets(entity), pset_name)
    THEN DictGet(DictGet(get_psets(entity), pset_name, <<>>), prop_name, None)
    ELSE None

\* entity.Representation is not None, False on any exception
has_geometry(entity) ==
    Has(entity.attrs, "Representation") /\ entity.attrs.Representation # None

\* ifcopenshell.geom is outside the repository; every failure is caught and
\* gives None, the only outcome the entities of this model have
get_bbox(entity) == None

\* ------------------------------------------------------------------
\* graph.py: SemanticGraph
\* ------------------------------------------------------------------

EdgeKinds == {"contained_in", "aggregates", "type_of", "connects_to"}

NodeRef(guid, ifc_type) == [guid |-> guid, ifc_type |-> ifc_type]

EdgeRef(source, target, kind) == [source |-> source, target |-> target, kind |-> kind]

\* a missing Optional[NodeRef]
NoNode == [guid |-> "", ifc_type |-> "", none |-> TRUE]

\* kind=None of the query methods
KIND_NONE == "<None>"

\* A rel_whitelist argument is [isnone, kinds]: None, or a list (its kinds as a set).
WhitelistTruthy(wl) == ~wl.isnone /\ wl.kinds # {}

\* __init__ before self._build()
SemanticGraph_new(rel_whitelist) ==
    [rel_whitelist |-> IF WhitelistTruthy(rel_whitelist)
                       THEN [isnone |-> FALSE, kinds |-> rel_whitelist.kinds]
                       ELSE [isnone |-> TRUE, kinds |-> {}],
     _nodes |-> <<>>, _by_type |-> <<>>, _out |-> <<>>, _in |-> <<>>]

nodes(g) == DictValues(g._nodes)

node(g, guid) == DictGet(g._nodes, guid, NoNode)

nodes_of_type(g, ifc_type) ==
    LET guids   == DictGet(g._by_type, ifc_type, <<>>)
        known(x) == DictHas(g._nodes, x)
        kept    == SelectSeq(guids, known)
    IN  [i \in 1..Len(kept) |-> node(g, kept[i])]

out_edges(g, guid, kind) ==
    LET edges   == DictGet(g._out, guid, <<>>)
        is_k(e) == e.kind = kind
    IN  IF kind = KIND_NONE THEN edges ELSE SelectSeq(edges, is_k)

in_edges(g, guid, kind) ==
    LET edges   == DictGet(g._in, guid, <<>>)
        is_k(e) == e.kind = kind
    IN  IF kind = KIND_NONE THEN edges ELSE SelectSeq(edges, is_k)

\* a degree that counts only the outgoing edges of a kind
\* the target of the first outgoing contained_in edge, None without one
contained_in(g, guid) ==
    LET first(edges) == IF edges = <<>> THEN NoNode ELSE node(g, edges[1].target)
    IN  first(out_edges(g, guid, "contained_in"))

\* a chain that stops after the immediate container
container_chain_one_step(g, guid) ==
    IF contained_in(g, guid) = NoNode THEN <<>> ELSE <<contained_in(g, guid)>>

\* the while loop of container_chain
RECURSIVE ChainLoop(_, _, _, _)
ChainLoop(g, current, visited, out) ==
    LET step(parent) ==
            IF parent = NoNode THEN out
            ELSE ChainLoop(g, parent.guid, visited \cup {current}, Append(out, parent))
    IN  IF current \in visited THEN out ELSE step(contained_in(g, current))

container_chain(g, guid) == ChainLoop(g, guid, {}, <<>>)

degree_out_only(g, guid, kind) ==
    IF kind = KIND_NONE
    THEN Len(DictGet(g._out, guid, <<>>)) + Len(DictGet(g._in, guid, <<>>))
    ELSE Len(out_edges(g, guid, kind))

degree(g, guid, kind) ==
    IF kind = KIND_NONE
    THEN Len(DictGet(g._out, guid, <<>>)) + Len(DictGet(g._in, guid, <<>>))
    ELSE Len(out_edges(g, guid, kind)) + Len(in_edges(g, guid, kind))

_allow(g, kind) ==
    IF g.rel_whitelist.isnone THEN TRUE ELSE kind \in g.rel_whitelist.kinds

\* an _add_node without the test for an id already indexed
_add_node_overwrite(g, guid, ifc_type) ==
    IF guid = "" THEN g
    ELSE [g EXCEPT !._nodes = DictSet(g._nodes, guid, NodeRef(guid, ifc_type)),
                   !._by_type = DictSet(g._by_type, ifc_type,
                                        Append(DictGet(g._by_type, ifc_type, <<>>), guid))]

_add_node(g, guid, ifc_type) ==
    IF guid = "" THEN g
    ELSE IF DictHas(g._nodes, guid) THEN g
    ELSE [g EXCEPT !._nodes = DictSet(g._nodes, guid, NodeRef(guid, ifc_type)),
                   !._by_type = DictSet(g._by_type, ifc_type,
                                        Append(DictGet(g._by_type, ifc_type, <<>>), guid))]

\* an _add_edge without the test that both endpoints are indexed
_add_edge_unchecked(g, source_guid, target_guid, kind) ==
    IF source_guid = "" \/ target_guid = "" THEN g
    ELSE LET e == EdgeRef(source_guid, target_guid, kind)
         IN  [g EXCEPT !._out = DictSet(g._out, source_guid,
                                        Append(DictGet(g._out, source_guid, <<>>), e)),
                       !._in = DictSet(g._in, target_guid,
                                       Append(DictGet(g._in, target_guid, <<>>), e))]

_add_edge(g, source_guid, target_guid, kind) ==
    IF source_guid = "" \/ target_guid = "" THEN g
    ELSE IF ~DictHas(g._nodes, source_guid) \/ ~DictHas(g._nodes, target_guid) THEN g
    ELSE LET e == EdgeRef(source_guid, target_guid, kind)
         IN  [g EXCEPT !._out = DictSet(g._out, source_guid,
                                        Append(DictGet(g._out, source_guid, <<>>), e)),
                       !._in = DictSet(g._in, target_guid,
                                       Append(DictGet(g._in, target_guid, <<>>), e))]

RECURSIVE _index_nodes(_, _)
_index_nodes(g, entities) ==
    IF entities = <<>> THEN g
    ELSE LET ent == Head(entities)
         IN  _index_nodes(IF ent.GlobalId # "" THEN _add_node(g, ent.GlobalId, ent.is_a) ELSE g,
                          Tail(entities))

\* _add_edge over a list of (source, target) pairs, in order
RECURSIVE AddEdges(_, _, _)
AddEdges(g, pairs, kind) ==
    IF pairs = <<>> THEN g
    ELSE AddEdges(_add_edge(g, Head(pairs)[1], Head(pairs)[2], kind), Tail(pairs), kind)

\* A relationship record of the model is [relating, related]: the relating
\* entity (NonDict for None) and the related entities (a list, or one entity
\* for the one-to-one records); only the GlobalId of an entity is read.

\* the loop body of _build_edges_contained_in and _build_edges_type_of:
\* related -> relating
RelatedToRelating(r) ==
    IF ~IsDict(r.relating) \/ r.related = <<>> THEN <<>>
    ELSE IF r.relating.GlobalId = "" THEN <<>>
    ELSE LET has_guid(el) == el.GlobalId # ""
             els == SelectSeq(r.related, has_guid)
         IN  [i \in 1..Len(els) |-> <<els[i].GlobalId, r.relating.GlobalId>>]

\* the loop body of _build_edges_aggregates: relating (whole) -> related (part)
RelatingToRelated(r) ==
    IF ~IsDict(r.relating) \/ r.related = <<>> THEN <<>>
    ELSE IF r.relating.GlobalId = "" THEN <<>>
    ELSE LET has_guid(el) == el.GlobalId # ""
             els == SelectSeq(r.related, has_guid)
         IN  [i \in 1..Len(els) |-> <<r.relating.GlobalId, els[i].GlobalId>>]

\* the loop bodies of _build_edges_connects_to: one relating -> one related
OneToOne(r) ==
    IF ~IsDict(r.relating) \/ ~IsDict(r.related) THEN <<>>
    ELSE IF r.relating.GlobalId # "" /\ r.related.GlobalId # ""
    THEN <<<<r.relating.GlobalId, r.related.GlobalId>>>>
    ELSE <<>>

\* by_type(name) of the wrapped file
by_type(model, name) == model.rels[name]

RelCategories ==
    {"IfcRelContainedInSpatialStructure", "IfcRelAggregates", "IfcRelDefinesByType",
     "IfcRelConnectsElements", "IfcRelConnectsPorts", "IfcRelConnectsPortToElement"}

\* the edges of a list of records, each record's pairs by its loop body
ScanRecords(g, recs, body(_), kind) ==
    AddEdges(g, Concat([i \in 1..Len(recs) |-> body(recs[i])]), kind)

_build_edges_contained_in(g, model) ==
    IF ~_allow(g, "contained_in") THEN g
    ELSE ScanRecords(g, by_type(model, "IfcRelContainedInSpatialStructure"),
                     RelatedToRelating, "contained_in")

_build_edges_aggregates(g, model) ==
    IF ~_allow(g, "aggregates") THEN g
    ELSE ScanRecords(g, by_type(model, "IfcRelAggregates"), RelatingToRelated, "aggregates")

_build_edges_type_of(g, model) ==
    IF ~_allow(g, "type_of") THEN g
    ELSE ScanRecords(g, by_type(model, "IfcRelDefinesByType"), RelatedToRelating, "type_of")

_build_edges_connects_to(g, model) ==
    IF ~_allow(g, "connects_to") THEN g
    ELSE ScanRecords(
             ScanRecords(
                 ScanRecords(g, by_type(model, "IfcRelConnectsElements"), OneToOne, "connects_to"),
                 by_type(model, "IfcRelConnectsPorts"), OneToOne, "connects_to"),
             by_type(model, "IfcRelConnectsPortToElement"), OneToOne, "connects_to")

_build(g, model) ==
    _build_edges_connects_to(
        _build_edges_type_of(
            _build_edges_aggregates(
                _build_edges_contained_in(
                    _index_nodes(g, all_entities(model)), model), model), model), model)

\* SemanticGraph(model, rel_whitelist=...)
SemanticGraph(model, rel_whitelist) == _build(SemanticGraph_new(rel_whitelist), model)

\* edge_list(): the edges by source, in the insertion order of the sources
edge_list(g) == Concat(DictValues(g._out))

stats(g) ==
    [nodes |-> Len(g._nodes),
     edge_kinds |-> {e.kind : e \in Range(edge_list(g))},
     edges_total |-> Len(edge_list(g))]

\* ------------------------------------------------------------------
\* Python operators on runtime values
\* ------------------------------------------------------------------

\* a NodeRef as a runtime value (an access chain without parts returns the node)
NodeVal(n) == [t |-> "node", node |-> n]

\* code-point order of the string atoms of the model
AtomRank(a) ==
    CASE a = "A" -> 1
      [] a = "B" -> 2
      [] a = "g1" -> 3
      [] a = "g2" -> 4
      [] a = "n" -> 5
      [] OTHER -> 6

RECURSIVE StrLess(_, _)
StrLess(x, y) ==
    IF y = <<>> THEN FALSE
    ELSE IF x = <<>> THEN TRUE
    ELSE IF AtomRank(Head(x)) # AtomRank(Head(y)) THEN AtomRank(Head(x)) < AtomRank(Head(y))
    ELSE StrLess(Tail(x), Tail(y))

RECURSIVE Repeat(_, _)
Repeat(x, n) ==
    IF n <= 0 THEN <<>> ELSE x \o Repeat(x, n - 1)

\* bool is a subclass of int
NumLike(v) == v.t \in {"bool", "num"}

AsNum(v) == IF v.t = "bool" THEN Int_(IF v.b THEN 1 ELSE 0) ELSE v

IntLike(v) == v.t = "bool" \/ (v.t = "num" /\ ~v.f)

\* bool(v)
Truthy(v) ==
    CASE v.t = "none" -> FALSE
      [] v.t = "bool" -> v.b
      [] v.t = "num" -> v.n # 0
      [] v.t = "str" -> v.s # <<>>
      [] OTHER -> TRUE

\* a == b
PyEq(a, b) ==
    IF NumLike(a) /\ NumLike(b) THEN AsNum(a).n * AsNum(b).d = AsNum(b).n * AsNum(a).d
    ELSE IF a.t # b.t THEN FALSE
    ELSE a = b

\* a < b
PyLess(a, b) ==
    IF NumLike(a) /\ NumLike(b)
    THEN Ok(Bool(AsNum(a).n * AsNum(b).d < AsNum(b).n * AsNum(a).d))
    ELSE IF a.t = "str" /\ b.t = "str" THEN Ok(Bool(StrLess(a.s, b.s)))
    ELSE Raise("TypeError")

PyNot(r) == IF r.ok THEN Ok(Bool(~r.val.b)) ELSE r

PyAdd(a, b) ==
    IF NumLike(a) /\ NumLike(b)
    THEN LET x == AsNum(a)
             y == AsNum(b)
         IN  Ok(Rat(x.n * y.d + y.n * x.d, x.d * y.d, x.f \/ y.f))
    ELSE IF a.t = "str" /\ b.t = "str" THEN Ok(Str(a.s \o b.s))
    ELSE Raise("TypeError")

PySub(a, b) ==
    IF NumLike(a) /\ NumLike(b)
    THEN LET x == AsNum(a)
             y == AsNum(b)
         IN  Ok(Rat(x.n * y.d - y.n * x.d, x.d * y.d, x.f \/ y.f))
    ELSE Raise("TypeError")

PyMul(a, b) ==
    IF NumLike(a) /\ NumLike(b)
    THEN LET x == AsNum(a)
             y == AsNum(b)
         IN  Ok(Rat(x.n * y.n, x.d * y.d, x.f \/ y.f))
    ELSE IF a.t = "str" /\ IntLike(b) THEN Ok(Str(Repeat(a.s, AsNum(b).n)))
    ELSE IF IntLike(a) /\ b.t = "str" THEN Ok(Str(Repeat(b.s, AsNum(a).n)))
    ELSE Raise("TypeError")

\* a / b with b != 0 already known
PyTrueDiv(a, b) ==
    IF NumLike(a) /\ NumLike(b)
    THEN IF AsNum(b).n = 0 THEN Raise("ZeroDivisionError")
         ELSE Ok(Rat(AsNum(a).n * AsNum(b).d, AsNum(a).d * AsNum(b).n, TRUE))
    ELSE Raise("TypeError")

\* ------------------------------------------------------------------
\* evaluator.py: Evaluator
\* ------------------------------------------------------------------

\* self is [model, graph]
Evaluator(model, g) == [model |-> model, graph |-> g]

\* a division without the test for a zero divisor
_apply_binop_div_unguarded(a, b) == PyTrueDiv(a, b)

\* the "/" branch: None if b == 0
_apply_binop_div(a, b) ==
    IF ~PyEq(b, Int_(0)) THEN PyTrueDiv(a, b) ELSE Ok(None)

_apply_binop(op, a, b) ==
    IF op = "+" THEN PyAdd(a, b)
    ELSE IF op = "-" THEN PySub(a, b)
    ELSE IF op = "*" THEN PyMul(a, b)
    ELSE IF op = "/" THEN _apply_binop_div(a, b)
    ELSE IF op = "==" THEN Ok(Bool(PyEq(a, b)))
    ELSE IF op = "!=" THEN Ok(Bool(~PyEq(a, b)))
    ELSE IF op = "<" THEN PyLess(a, b)
    ELSE IF op = ">" THEN PyLess(b, a)
    ELSE IF op = "<=" THEN (IF NumLike(a) /\ NumLike(b) THEN PyNot(PyLess(b, a))
                            ELSE IF PyLess(a, b).ok THEN Ok(Bool(PyLess(a, b).val.b \/ a = b))
                            ELSE PyLess(a, b))
    ELSE IF op = ">=" THEN (IF NumLike(a) /\ NumLike(b) THEN PyNot(PyLess(a, b))
                            ELSE IF PyLess(b, a).ok THEN Ok(Bool(PyLess(b, a).val.b \/ a = b))
                            ELSE PyLess(b, a))
    ELSE IF op = "and" THEN Ok(Bool(Truthy(a) /\ Truthy(b)))
    ELSE IF op = "or" THEN Ok(Bool(Truthy(a) \/ Truthy(b)))
    ELSE Raise("EvaluationError")

_apply_unop(op, val) ==
    IF op = "not" THEN Ok(Bool(~Truthy(val)))
    ELSE IF op = "-" THEN (IF NumLike(val)
                           THEN Ok(Rat(-AsNum(val).n, AsNum(val).d, AsNum(val).f))
                           ELSE Raise("TypeError"))
    ELSE Raise("EvaluationError")

\* the names _dispatch_function implements
DispatchTable == {"ifc.type", "ifc.name", "pset.get", "geom.bbox", "geom.exists", "degree"}

\* a dispatch that gives None for a name it does not implement
_dispatch_function_lenient(self, fn, n, args) ==
    LET entity == entity_by_guid(self.model, n.guid)
    IN  IF fn = "ifc.type" THEN Ok(Str(<<n.ifc_type>>))
        ELSE IF fn = "ifc.name" THEN Ok(get_name(entity))
        ELSE IF fn = "pset.get" THEN
            (IF Len(args) # 2 THEN Ok(None) ELSE Ok(get_pset(entity, args[1], args[2])))
        ELSE IF fn = "geom.bbox" THEN Ok(get_bbox(entity))
        ELSE IF fn = "geom.exists" THEN Ok(Bool(has_geometry(entity)))
        ELSE IF fn = "degree" THEN Ok(Int_(degree(self.graph, n.guid, KIND_NONE)))
        ELSE Ok(None)

_dispatch_function(self, fn, n, args) ==
    LET entity == entity_by_guid(self.model, n.guid)
    IN  IF fn = "ifc.type" THEN Ok(Str(<<n.ifc_type>>))
        ELSE IF fn = "ifc.name" THEN Ok(get_name(entity))
        ELSE IF fn = "pset.get" THEN
            (IF Len(args) # 2 THEN Ok(None) ELSE Ok(get_pset(entity, args[1], args[2])))
        ELSE IF fn = "geom.bbox" THEN Ok(get_bbox(entity))
        ELSE IF fn = "geom.exists" THEN Ok(Bool(has_geometry(entity)))
        ELSE IF fn = "degree" THEN Ok(Int_(degree(self.graph, n.guid, KIND_NONE)))
        ELSE Raise("EvaluationError")

\* the loop over the parts of an access chain
RECURSIVE AccessParts(_, _, _, _)
AccessParts(self, parts, n, base) ==
    IF parts = <<>> THEN Ok(base)
    ELSE LET p == Head(parts)
         IN  IF ~IsDict(p) THEN Raise("TypeError")
             ELSE IF ~Has(p, "kind") THEN Raise("KeyError")
             ELSE IF p.kind = "attr" THEN
                 (IF ~Has(p, "name") THEN Raise("KeyError")
                  ELSE AccessParts(self, Tail(parts), n,
                                   get_attr(entity_by_guid(self.model, n.guid), p.name)))
             ELSE Ok(None)

RECURSIVE _eval_expr(_, _, _)
_eval_expr(self, expr, n) ==
    LET kind == expr.kind
        binop(l, r) == _apply_binop(expr.data.op, l, r)
        unop(v)     == _apply_unop(expr.data.op, v)
        arg(a)      == _eval_expr(self, a, n)
        call(args)  == _dispatch_function(self, expr.data.fn, n, args)
    IN  IF kind = "literal" THEN
            (IF Has(expr.data, "value") THEN Ok(expr.data.value) ELSE Raise("KeyError"))
        ELSE IF kind = "null" THEN Ok(None)
        ELSE IF kind = "binop" THEN
            Then2(_eval_expr(self, expr.data.left, n), _eval_expr(self, expr.data.right, n), binop)
        ELSE IF kind = "unop" THEN
            Then(_eval_expr(self, expr.data.value, n), unop)
        ELSE IF kind = "call" THEN
            Then(AllOk(MapSeq(expr.data.args, arg)), call)
        ELSE IF kind = "access" THEN AccessParts(self, expr.data.parts, n, NodeVal(n))
        ELSE Raise("EvaluationError")

\* [node for node in current if self._eval_expr(expr, node)]
RECURSIVE FilterWhere(_, _, _)
FilterWhere(self, expr, current) ==
    IF current = <<>> THEN Ok(<<>>)
    ELSE LET keep(v, rest) == Ok((IF Truthy(v) THEN <<Head(current)>> ELSE <<>>) \o rest)
         IN  Then2(_eval_expr(self, expr, Head(current)),
                   FilterWhere(self, expr, Tail(current)), keep)

\* the statements of one view applied in order to the candidate list
RECURSIVE ApplyViewStmts(_, _, _)
ApplyViewStmts(self, stmts, current) ==
    IF stmts = <<>> THEN Ok(current)
    ELSE LET stmt == Head(stmts)
             go_on(kept) == ApplyViewStmts(self, Tail(stmts), kept)
         IN  IF stmt.kind = "select" THEN
                 (IF ~Has(stmt.data, "type") THEN Raise("KeyError")
                  ELSE go_on(nodes_of_type(self.graph, stmt.data.type)))
             ELSE IF stmt.kind = "where" THEN
                 (IF ~Has(stmt.data, "expr") THEN Raise("KeyError")
                  ELSE Then(FilterWhere(self, stmt.data.expr, current), go_on))
             ELSE go_on(current)

\* the result of one view: its statements applied to all nodes
ViewResult(self, view) == ApplyViewStmts(self, view.statements, nodes(self.graph))

\* no de-duplication
Deduplicate_off(result, seen) == result

\* Deduplicate by guid, first occurrence kept
RECURSIVE Deduplicate(_, _)
Deduplicate(result, seen) ==
    IF result = <<>> THEN <<>>
    ELSE LET n == Head(result)
         IN  IF n.guid \notin seen
             THEN <<n>> \o Deduplicate(Tail(result), seen \cup {n.guid})
             ELSE Deduplicate(Tail(result), seen)

_apply_views(self, doc) ==
    IF doc.views = <<>> THEN Ok(nodes(self.graph))
    ELSE LET of_(view)     == ViewResult(self, view)
             dedup(result) == Ok(Deduplicate(Concat(result), {}))
         IN  Then(AllOk(MapSeq(doc.views, of_)), dedup)

\* a derive loop that keeps the first value stored under a feature name
RECURSIVE DeriveRow_keep_first(_, _, _, _)
DeriveRow_keep_first(self, stmts, n, row) ==
    IF stmts = <<>> THEN Ok(row)
    ELSE LET stmt == Head(stmts)
             set(value) ==
                 DeriveRow_keep_first(self, Tail(stmts), n,
                                      IF DictHas(row, stmt.data.name) THEN row
                                      ELSE DictSet(row, stmt.data.name, value))
         IN  IF stmt.kind = "feature" THEN
                 (IF ~Has(stmt.data, "name") \/ ~Has(stmt.data, "expr") THEN Raise("KeyError")
                  ELSE Then(_eval_expr(self, stmt.data.expr, n), set))
             ELSE DeriveRow_keep_first(self, Tail(stmts), n, row)

\* the feature statements of the derive block applied in order to one row
RECURSIVE DeriveRow(_, _, _, _)
DeriveRow(self, stmts, n, row) ==
    IF stmts = <<>> THEN Ok(row)
    ELSE LET stmt == Head(stmts)
             set(value) == DeriveRow(self, Tail(stmts), n, DictSet(row, stmt.data.name, value))
         IN  IF stmt.kind = "feature" THEN
                 (IF ~Has(stmt.data, "name") \/ ~Has(stmt.data, "expr") THEN Raise("KeyError")
                  ELSE Then(_eval_expr(self, stmt.data.expr, n), set))
             ELSE DeriveRow(self, Tail(stmts), n, row)

_apply_derive(self, doc, selected_nodes) ==
    LET row_of(n) == DeriveRow(self, doc.derive.statements, n,
                               <<[key |-> "guid", val |-> Str(<<n.guid>>)]>>)
    IN  AllOk(MapSeq(selected_nodes, row_of))

\* evaluate, with the selection it derived the rows from
evaluate(self, doc) ==
    LET derive(sel) ==
            LET ret(dataset) == [ok |-> TRUE, val |-> dataset, selected |-> sel]
            IN  Then(_apply_derive(self, doc, sel), ret)
    IN  Then(_apply_views(self, doc), derive)

\* ------------------------------------------------------------------
\* exporter.py and runner.py: the export and manifest stages
\* ------------------------------------------------------------------

ExportResult(format, path, rows_n, cols_n) ==
    [format |-> format, path |-> path, rows |-> rows_n, cols |-> cols_n]

\* len(_union_columns(rows))
_union_columns(rows) ==
    Cardinality(UNION {Range(DictKeys(rows[i])) : i \in 1..Len(rows)})

\* a row holding a NodeRef cannot be written (json.dumps / pyarrow reject it)
Writable(rows) ==
    \A i \in 1..Len(rows) : \A j \in 1..Len(rows[i]) : rows[i][j].val.t # "node"

\* pyarrow is installed in the modelled deployment
export_tabular_parquet(rows, path) ==
    IF ~Writable(rows) THEN Raise("ArrowInvalid")
    ELSE IF rows = <<>> THEN Ok(ExportResult("parquet", path, 0, 0))
    ELSE Ok(ExportResult("parquet", path, Len(rows), _union_columns(rows)))

export_tabular_jsonl(rows, path) ==
    IF ~Writable(rows) THEN Raise("TypeError")
    ELSE Ok(ExportResult("jsonl", path, Len(rows),
                         IF rows # <<>> THEN _union_columns(rows) ELSE 0))

export_edge_list_tsv(edges, path) ==
    Ok(ExportResult("edge_list_tsv", path, Len(edges), IF edges # <<>> THEN 3 ELSE 0))

\* the value of the first statement of that kind, "" for None
_export_get_value(block, kind) ==
    LET is_k(st) == st.kind = kind
        hits     == SelectSeq(block.statements, is_k)
    IN  IF hits = <<>> THEN "" ELSE Get(hits[1].data, "value", "")

\* the loop of _execute_exports over the export blocks, results accumulated
RECURSIVE ExportBlocks(_, _, _, _)
ExportBlocks(blocks, rows, g, results) ==
    IF blocks = <<>> THEN Ok(results)
    ELSE LET fmt  == _export_get_value(Head(blocks), "format")
             path == _export_get_value(Head(blocks), "path")
             add(result) == ExportBlocks(Tail(blocks), rows, g, Append(results, result))
         IN  IF fmt = "" \/ path = "" THEN ExportBlocks(Tail(blocks), rows, g, results)
             ELSE IF fmt = "parquet" THEN Then(export_tabular_parquet(rows, path), add)
             ELSE IF fmt = "jsonl" THEN Then(export_tabular_jsonl(rows, path), add)
             ELSE IF fmt = "edge_list" THEN Then(export_edge_list_tsv(edge_list(g), path), add)
             ELSE Raise("RunError")

_execute_exports(doc, rows, g) == ExportBlocks(doc.exports, rows, g, <<>>)

\* the fields of the manifest that depend on the run
_build_manifest(ctx_whitelist, g, rows, artifacts) ==
    [config    |-> [rel_whitelist |-> ctx_whitelist],
     stats     |-> [graph   |-> stats(g),
                    dataset |-> [rows |-> Len(rows),
                                 cols |-> IF rows # <<>> THEN Len(rows[1]) ELSE 0]],
     artifacts |-> artifacts]

\* rel_whitelist = rel_whitelist or [the four kinds]
DefaultWhitelist(arg) ==
    IF WhitelistTruthy(arg) THEN arg ELSE [isnone |-> FALSE, kinds |-> EdgeKinds]

\* a checking stage that reports nothing
_typecheck_swallow(doc) == Ok(None)

\* _typecheck: TypeCheckError re-raised as RunError, the diagnostics kept as its cause
_typecheck(doc) ==
    LET wrap(r) == IF r.ok THEN r
                   ELSE [ok |-> FALSE, exc |-> "RunError", diagnostics |-> r.diagnostics]
    IN  wrap(type_check_document(doc))

\* ------------------------------------------------------------------
\* parser.py: the shapes of the parser's output (the transformer's dicts)
\* ------------------------------------------------------------------

RawNull == [_expr |-> "null"]

RawNumber(n) == [_expr |-> "number", value |-> Float(n)]

RawString(s) == [_expr |-> "string", value |-> Str(s)]

RawBool(b) == [_expr |-> "bool", value |-> Bool(b)]

RawCall(fn, args) == [_expr |-> "call", fn |-> fn, args |-> args]

RawBinop(op, l, r) == [_expr |-> "binop", op |-> op, left |-> l, right |-> r]

RawUnop(op, v) == [_expr |-> "unop", op |-> op, value |-> v]

\* base[expr]
RawIndexed(base, e) ==
    [_expr |-> "access",
     parts |-> <<[kind |-> "ident", name |-> base], [kind |-> "index", expr |-> e]>>]

\* base.name
RawAccess(base, name) ==
    [_expr |-> "access",
     parts |-> <<[kind |-> "ident", name |-> base], [kind |-> "attr", name |-> name]>>]

RawAssign(name, e) == [type |-> "assign", name |-> name, expr |-> e]

RawFeature(name, e) == [type |-> "feature", name |-> name, expr |-> e]

RawSelect(target) == [type |-> "select", target |-> target]

RawWhere(e) == [type |-> "where", expr |-> e]

RawValue(kind, v) == [type |-> kind, value |-> v]

RawBy(fn, args) == [type |-> "by", fn |-> fn, args |-> args]

RawBlock(kind, body) == [_kind |-> kind, body |-> body]

\* a key of the parsed dict that holds None is left out: opt is <<>> or <<v>>
OptField(k, opt) == IF opt = <<>> THEN Empty ELSE k :> opt[1]

ParsedDict(source, views, derive, synthesize, split, exports) ==
    OptField("source", source) @@ OptField("views", views) @@ OptField("derive", derive)
    @@ OptField("synthesize", synthesize) @@ OptField("split", split)
    @@ OptField("exports", exports)

\* ------------------------------------------------------------------
\* Bounds and input families
\* ------------------------------------------------------------------

\* entities in a model
MaxEntities == 2
\* related elements in one relationship record
MaxRelated == 2
\* nesting depth of the expressions given to the checker
MaxDepth == 2
\* export blocks in a document
MaxExports == 2
\* view blocks in a document
MaxViews == 2
\* statements in one view block
MaxViewStmts == 2
\* largest integer operand given to an operator
MaxInt == 2
\* statements in the derive block of a document given to the evaluator
MaxDeriveStmts == 2
\* containment records in a model given to the container queries
MaxChainRecords == 3

\* statements in a block body of the transformer's output
MaxAssigns == 2

Guids == {"g1", "g2"}

Types == {"A", "B"}

\* a value that is not there yet (None)
Absent == [none |-> TRUE]

Entity(guid, is_a, attrs) == [GlobalId |-> guid, is_a |-> is_a, attrs |-> attrs]

\* the entities a file may hold: one without GlobalId; those with id g1 carry
\* a Name and a Representation, those with id g2 neither
EntityPool ==
    {Entity("", "A", Empty),
     Entity("g1", "A", [Name |-> Str(<<"n">>), Representation |-> Str(<<"n">>)]),
     Entity("g1", "B", [Name |-> Str(<<"n">>), Representation |-> Str(<<"n">>)]),
     Entity("g2", "B", Empty)}

EntityLists == SeqsUpTo(EntityPool, MaxEntities)

\* the entity a relationship record points to: only its GlobalId is read
EntRef(guid) == [GlobalId |-> guid]

Relatings == {NonDict} \cup {EntRef(g) : g \in Guids \cup {""}}

OneToManyCategories == {"IfcRelContainedInSpatialStructure", "IfcRelAggregates", "IfcRelDefinesByType"}

RecordsOf(c) ==
    IF c \in OneToManyCategories
    THEN {[relating |-> r, related |-> l] :
              r \in Relatings, l \in SeqsUpTo({EntRef(g) : g \in Guids \cup {""}}, MaxRelated)}
    ELSE {[relating |-> r, related |-> x] : r \in Relatings, x \in Relatings}

\* records that link two entities with ids
LinksOf(c) ==
    IF c \in OneToManyCategories
    THEN {[relating |-> EntRef(a), related |-> <<EntRef(b)>>] : a \in Guids, b \in Guids}
    ELSE {[relating |-> EntRef(a), related |-> EntRef(b)] : a \in Guids, b \in Guids}

NoRels == [c \in RelCategories |-> <<>>]

\* the relationship records of a file: none, any one record, or two linking records
RelSnapshots ==
    {NoRels}
    \cup UNION {{[NoRels EXCEPT ![c] = <<r>>] : r \in RecordsOf(c)} : c \in RelCategories}
    \cup UNION {UNION {{[[NoRels EXCEPT ![c1] = <<r1>>] EXCEPT ![c2] = Append(@, r2)] :
                            r1 \in LinksOf(c1), r2 \in LinksOf(c2)} :
                       c1 \in RelCategories} : c2 \in RelCategories}

AllKinds == [isnone |-> TRUE, kinds |-> {}]

ListOf(kinds) == [isnone |-> FALSE, kinds |-> kinds]

\* rel_whitelist arguments of SemanticGraph: None, [], and a proper list
GraphWhitelists ==
    {AllKinds, ListOf({}), ListOf({"contained_in", "connects_to"})}

GraphModels == {IFCModel(ents, rels) : ents \in EntityLists, rels \in RelSnapshots}

\* ---- models given to the container queries ----

ChainGuids == {"g1", "g2", "g3"}

\* a containment record: the element b lies in the structure a
Contains(a, b) == [relating |-> EntRef(a), related |-> <<EntRef(b)>>]

\* three entities with ids; any containment records between them (chains,
\* forks, self-loops, cycles), with or without an aggregation between two
ChainModels ==
    {IFCModel(<<Entity("g1", "A", Empty), Entity("g2", "A", Empty), Entity("g3", "B", Empty)>>,
              [[NoRels EXCEPT !["IfcRelContainedInSpatialStructure"] = recs]
                   EXCEPT !["IfcRelAggregates"] = agg]) :
         recs \in SeqsUpTo({Contains(a, b) : a \in ChainGuids, b \in ChainGuids}, MaxChainRecords),
         agg \in {<<>>, <<Contains("g1", "g2")>>}}

\* ---- documents ----

SourceOk == RawBlock("source", <<RawValue("path", "model.ifc")>>)

DeriveOk == RawBlock("derive", <<RawFeature("t", RawCall("ifc.type", <<>>))>>)

ExportOf(fmt, path) == RawBlock("export", <<RawValue("format", fmt), RawValue("path", path)>>)

\* the document of a parsed dict known to have source, derive and exports
DocOf(parsed) == Document_from_parsed(parsed).val

\* the parsed dicts given to Document.from_parsed alone: every block present
\* or None, bodies with statements the builder keeps, rewrites or drops
StructInputs ==
    {ParsedDict(so, vi, de, sy, sp, ex) :
        so \in {<<>>, <<RawBlock("source", <<>>)>>,
                <<RawBlock("source", <<RawValue("path", "model.ifc"), NonDict,
                                       [name |-> "x"], [type |-> "bogus"]>>)>>},
        vi \in {<<>>, <<(<<>>)>>, <<(<<RawBlock("view", <<RawSelect("A")>>)>>)>>},
        de \in {<<>>, <<RawBlock("derive", <<>>)>>, <<DeriveOk>>},
        sy \in {<<>>, <<RawBlock("synthesize", <<RawAssign("s", RawNull)>>)>>},
        sp \in {<<>>, <<RawBlock("split", <<RawBy("hash", <<RawNull>>)>>)>>},
        ex \in {<<>>} \cup {<<l>> : l \in SeqsUpTo({ExportOf("parquet", "out"),
                                                    RawBlock("export", <<>>)}, MaxExports)}}

\* ---- documents given to the checker ----

CallNames == {"degree", "foo"}

\* the expressions one constructor deeper than those of E
Grow(E) ==
    UNION {{RawCall(f, <<>>), RawCall(f, <<e>>), RawCall(f, <<e, e>>)} : f \in CallNames, e \in E}
    \cup {RawBinop("+", e, e) : e \in E}
    \cup {RawBinop("*", e, RawCall("foo", <<>>)) : e \in E}
    \cup {RawUnop("-", e) : e \in E}
    \cup {RawIndexed("a", e) : e \in E}

RECURSIVE ExprsUpTo(_)
ExprsUpTo(d) ==
    IF d = 0 THEN {RawNull} ELSE {RawNull} \cup Grow(ExprsUpTo(d - 1))

Placements == {"source", "view", "derive", "synthesize", "split", "export"}

\* a valid document with the expression e placed in a statement of one block
Placed(e, where) ==
    ParsedDict(
        <<RawBlock("source", <<RawValue("path", "model.ifc")>>
                             \o (IF where = "source" THEN <<RawAssign("x", e)>> ELSE <<>>))>>,
        <<(<<RawBlock("view", <<RawSelect("A")>>
                              \o (IF where = "view" THEN <<RawWhere(e)>> ELSE <<>>))>>)>>,
        <<RawBlock("derive", <<RawFeature("t", IF where = "derive" THEN e ELSE RawNull)>>)>>,
        <<RawBlock("synthesize", IF where = "synthesize"
                                 THEN <<[type |-> "emit", expr |-> e]>> ELSE <<>>)>>,
        <<RawBlock("split", <<RawBy("hash", IF where = "split" THEN <<e, e>> ELSE <<>>)>>)>>,
        <<(<<RawBlock("export", <<RawValue("format", "parquet"), RawValue("path", "out")>>
                                \o (IF where = "export" THEN <<RawAssign("x", e)>> ELSE <<>>))>>)>>)

ViewOk == RawBlock("view", <<RawSelect("A")>>)

ViewBad == RawBlock("view", <<RawWhere(RawNull)>>)

\* documents whose blocks pass or fail their structural checks independently
Skeletons ==
    {ParsedDict(<<so>>, <<vi>>, <<de>>, sy, sp, <<ex>>) :
        so \in {SourceOk, RawBlock("source", <<>>)},
        vi \in SeqsUpTo({ViewOk, ViewBad}, MaxViews),
        de \in {RawBlock("derive", <<RawFeature("t", e)>>) :
                    e \in {RawNull, RawCall("foo", <<RawCall("foo", <<>>)>>)}}
               \cup {RawBlock("derive", <<RawAssign("t", RawNull)>>)},
        sy \in {<<>>, <<RawBlock("synthesize", <<RawAssign("s", RawCall("synth.custom", <<>>))>>)>>,
                <<RawBlock("synthesize", <<RawAssign("s", RawCall("degree", <<>>)),
                                           RawFeature("u", RawNull)>>)>>},
        sp \in {<<>>, <<RawBlock("split", <<RawBy("hash", <<>>)>>)>>,
                <<RawBlock("split", <<RawBy("bogus", <<>>)>>)>>, <<RawBlock("split", <<>>)>>},
        ex \in SeqsUpTo({ExportOf("parquet", "out"), RawBlock("export", <<>>)},
                        MaxExports) \ {<<>>}}

\* export blocks with and without each of format and path, under a source
\* block with a path, without statements, or with another statement only
ExportInputs ==
    {ParsedDict(<<so>>, <<(<<ViewOk>>)>>, <<DeriveOk>>, <<>>, <<>>, <<ex>>) :
        so \in {SourceOk, RawBlock("source", <<>>),
                RawBlock("source", <<RawAssign("x", RawNull)>>)},
        ex \in SeqsUpTo({ExportOf("parquet", "out"), RawBlock("export", <<>>),
                         RawBlock("export", <<RawValue("format", "parquet")>>),
                         RawBlock("export", <<RawValue("path", "out"),
                                              RawAssign("x", RawNull)>>)},
                        MaxExports) \ {<<>>}}

RawFeatureGroup(kind, features) == [type |-> kind, features |-> features]

\* a derive block with a feature and a grouping statement of one nested feature
FeatureGroupInputs ==
    {ParsedDict(<<SourceOk>>, <<(<<ViewOk>>)>>,
                <<RawBlock("derive", <<RawFeature("t", RawCall("ifc.type", <<>>)),
                                       RawFeatureGroup(k, <<RawFeature("n", e)>>)>>)>>,
                <<>>, <<>>, <<(<<ExportOf("parquet", "out")>>)>>) :
        k \in {"node_features", "edge_features"},
        e \in {RawCall("ifc.type", <<>>), RawCall("foo", <<>>),
               RawCall("degree", <<RawCall("foo", <<>>)>>)}}

\* synthesize statements that call synth.* functions only, or synth.* and
\* other functions together
SynthInputs ==
    {ParsedDict(<<SourceOk>>, <<(<<ViewOk>>)>>, <<DeriveOk>>,
                <<RawBlock("synthesize", <<[type |-> k, name |-> "s", expr |-> e]>>)>>,
                <<>>, <<(<<ExportOf("parquet", "out")>>)>>) :
        k \in {"assign", "feature", "emit"},
        e \in {RawCall("synth.custom", <<RawCall("synth.custom", <<>>)>>),
               RawCall("synth.custom", <<RawCall("degree", <<>>)>>),
               RawBinop("+", RawCall("degree", <<>>), RawCall("synth.custom", <<>>))}}

CheckInputs ==
    Skeletons \cup {Placed(e, w) : e \in ExprsUpTo(MaxDepth), w \in Placements}
    \cup ExportInputs \cup FeatureGroupInputs \cup SynthInputs

CheckDocs == {DocOf(p) : p \in CheckInputs}

\* ---- documents and models given to the evaluator ----

ViewStmtPool ==
    {RawSelect("A"), RawSelect("B"), RawWhere(RawCall("degree", <<>>)),
     RawWhere(RawCall("geom.exists", <<>>)), RawWhere(RawNull), RawAssign("x", RawNull)}

SmallViews ==
    {RawBlock("view", b) : b \in {<<>>, <<RawWhere(RawCall("degree", <<>>))>>,
                                  <<RawWhere(RawCall("geom.exists", <<>>))>>,
                                  <<RawSelect("A")>>}}

\* 1+2
OnePlusTwo == RawBinop("+", RawNumber(1), RawNumber(2))

\* source{path = "a";} derive{ x = 1+2; } export tabular{format = "jsonl"; path = "out";}
\* as the grammar's block rule (assign_stmt*) gives it
RecipeXOnePlusTwo ==
    ParsedDict(<<RawBlock("source", <<RawAssign("path", RawString(<<"a">>))>>)>>,
               <<(<<>>)>>,
               <<RawBlock("derive", <<RawAssign("x", OnePlusTwo)>>)>>,
               <<>>, <<>>,
               <<(<<RawBlock("export", <<RawAssign("format", RawString(<<"jsonl">>)),
                                         RawAssign("path", RawString(<<"out">>))>>)>>)>>)

\* statements of a derive block: features on dispatched functions (two of
\* them with the same name), on a catalog function that is not dispatched, on
\* a function outside the catalog, on a literal expression; an assignment
\* and an emit statement
DeriveStmtPool ==
    {RawFeature("t", RawCall("ifc.type", <<>>)), RawFeature("t", RawCall("degree", <<>>)),
     RawFeature("u", RawCall("ifc.name", <<>>)), RawFeature("h", RawCall("hash", <<>>)),
     RawFeature("f", RawCall("degree", <<RawCall("foo", <<>>)>>)),
     RawFeature("x", OnePlusTwo), RawAssign("x", OnePlusTwo),
     [type |-> "emit", expr |-> RawCall("ifc.type", <<>>)]}

\* documents without views whose derive block varies
DeriveInputs ==
    {RecipeXOnePlusTwo}
    \cup {ParsedDict(<<SourceOk>>, <<(<<>>)>>, <<RawBlock("derive", b)>>, <<>>, <<>>,
                     <<(<<ExportOf("parquet", "out")>>)>>) :
              b \in SeqsUpTo(DeriveStmtPool, MaxDeriveStmts)}

\* documents without views whose derive block is one feature holding a literal
LiteralInputs ==
    {ParsedDict(<<SourceOk>>, <<(<<>>)>>, <<RawBlock("derive", <<RawFeature("x", e)>>)>>,
                <<>>, <<>>, <<(<<ExportOf("parquet", "out")>>)>>) :
        e \in {RawNumber(1), RawString(<<"A">>), RawBool(TRUE), RawNull}}

\* documents without views whose derive block is one feature holding an
\* access chain: a.Name, a.Missing, and a[foo()] with an index part
AccessInputs ==
    {ParsedDict(<<SourceOk>>, <<(<<>>)>>, <<RawBlock("derive", <<RawFeature("x", e)>>)>>,
                <<>>, <<>>, <<(<<ExportOf("parquet", "out")>>)>>) :
        e \in {RawAccess("a", "Name"), RawAccess("a", "Missing"),
               RawIndexed("a", RawCall("foo", <<>>))}}

\* documents without views whose derive block declares a feature named guid
GuidInputs ==
    {ParsedDict(<<SourceOk>>, <<(<<>>)>>, <<RawBlock("derive", b)>>, <<>>, <<>>,
                <<(<<ExportOf("parquet", "out")>>)>>) :
        b \in {<<RawFeature("guid", RawCall("ifc.type", <<>>))>>,
               <<RawFeature("t", RawCall("degree", <<>>)),
                 RawFeature("guid", RawCall("ifc.name", <<>>))>>}}

EvalInputs ==
    DeriveInputs \cup LiteralInputs \cup AccessInputs \cup GuidInputs \cup
    {ParsedDict(<<SourceOk>>, <<(<<RawBlock("view", b)>>)>>, <<DeriveOk>>, <<>>, <<>>,
                <<(<<ExportOf("parquet", "out")>>)>>) : b \in SeqsUpTo(ViewStmtPool, MaxViewStmts)}
    \cup {ParsedDict(<<SourceOk>>, <<vs>>, <<DeriveOk>>, <<>>, <<>>,
                     <<(<<ExportOf("parquet", "out")>>)>>) : vs \in SeqsUpTo(SmallViews, MaxViews)}

EvalDocs == {DocOf(p) : p \in EvalInputs}

Link(c, a, b) ==
    [NoRels EXCEPT ![c] = <<[relating |-> EntRef(a),
                             related |-> IF c \in OneToManyCategories THEN <<EntRef(b)>>
                                         ELSE EntRef(b)]>>]

EvalRels ==
    {NoRels, Link("IfcRelContainedInSpatialStructure", "g1", "g2"),
     Link("IfcRelConnectsElements", "g2", "g2"), Link("IfcRelAggregates", "g1", "g1")}

EvalModels == {IFCModel(ents, rels) : ents \in EntityLists, rels \in EvalRels}

\* ---- operator applications ----

BinOps == {"+", "-", "*", "/", "%", "==", "!=", "<", ">", "<=", ">=", "and", "or"}

OpValues ==
    {None, Bool(TRUE), Bool(FALSE), Str(<<>>), Str(<<"A">>), NodeVal(NodeRef("g1", "A")),
     Float(0), Rat(1, 2, TRUE)}
    \cup {Int_(k) : k \in (-1)..MaxInt}

\* ---- dicts the parser's transformer builds ----

\* a block body is a list of assign statements: the grammar's block rule is
\* "{" assign_stmt* "}" for source, derive, synthesize, split and export
AssignBodies(pool) == SeqsUpTo(pool, MaxAssigns)

\* a view body holds where statements and assign statements tagged in_view
ParsedViews ==
    {<<>>,
     <<RawBlock("view", <<RawWhere(RawCall("degree", <<>>))>>)>>,
     <<RawBlock("view", <<[type |-> "assign", name |-> "x", expr |-> RawNull,
                           in_view |-> TRUE]>>)>>}

ParserOutputs ==
    {ParsedDict(<<RawBlock("source", so)>>, <<vi>>, <<RawBlock("derive", de)>>, <<>>, <<>>,
                <<ex>>) :
        so \in AssignBodies({RawAssign("path", RawString(<<"model.ifc">>)),
                             RawAssign("x", RawNull)}),
        vi \in ParsedViews,
        de \in AssignBodies({RawAssign("t", RawCall("ifc.type", <<>>)),
                             RawAssign("x", OnePlusTwo)}),
        ex \in SeqsUpTo({RawBlock("export", <<RawAssign("format", RawString(<<"parquet">>)),
                                              RawAssign("path", RawString(<<"out">>))>>),
                         RawBlock("export", <<>>)}, MaxExports) \ {<<>>}}

\* ---- raw expressions given to Expr.from_raw ----

\* a non-map value, a map without a kind tag, an unknown kind tag, and
\* recognized kind tags with missing or None fields
MalformedRaw ==
    {NonDict, [value |-> Float(1)], [_expr |-> "bogus"],
     [_expr |-> "binop", op |-> "+"], [_expr |-> "unop", op |-> "-"],
     [_expr |-> "call", fn |-> "foo"], [_expr |-> "call", fn |-> "foo", args_none |-> TRUE],
     [_expr |-> "access"], [_expr |-> "access", parts_none |-> TRUE],
     [_expr |-> "number"]}

RawExprInputs ==
    LET base == MalformedRaw \cup ExprsUpTo(MaxDepth)
    IN  base \cup UNION {{RawCall("degree", <<m>>), RawBinop("+", m, RawNull),
                          RawUnop("not", m), RawIndexed("a", m)} : m \in base}

\* ---- runs of the pipeline ----

PipelineDoc(source, views, derive, exports) ==
    ParsedDict(source, <<views>>, derive, <<>>, <<>>, <<exports>>)

PipelineInputs ==
    {PipelineDoc(<<SourceOk>>, <<>>, <<DeriveOk>>, <<ExportOf("parquet", "out")>>),
     PipelineDoc(<<SourceOk>>, <<RawBlock("view", <<RawSelect("A"), RawWhere(RawCall("degree", <<>>))>>)>>,
                 <<DeriveOk>>, <<ExportOf("jsonl", "out"), ExportOf("edge_list", "edges")>>),
     PipelineDoc(<<SourceOk>>, <<>>, <<DeriveOk>>, <<ExportOf("csv", "out")>>),
     PipelineDoc(<<SourceOk>>, <<>>, <<DeriveOk>>, <<ExportOf("", "out"), ExportOf("jsonl", "out")>>),
     PipelineDoc(<<SourceOk>>, <<>>, <<RawBlock("derive", <<RawFeature("x", RawNumber(1))>>)>>,
                 <<ExportOf("parquet", "out")>>),
     PipelineDoc(<<>>, <<>>, <<DeriveOk>>, <<ExportOf("parquet", "out")>>),
     PipelineDoc(<<SourceOk>>, <<>>, <<DeriveOk>>, <<>>),
     PipelineDoc(<<RawBlock("source", <<>>)>>, <<>>, <<DeriveOk>>, <<ExportOf("parquet", "out")>>),
     PipelineDoc(<<SourceOk>>, <<ViewBad>>, <<DeriveOk>>, <<ExportOf("parquet", "out")>>),
     PipelineDoc(<<SourceOk>>, <<>>, <<RawBlock("derive", <<RawFeature("x", RawCall("foo", <<>>))>>)>>,
                 <<ExportOf("parquet", "out")>>)}

PipelineModels == {IFCModel(ents, rels) : ents \in EntityLists, rels \in EvalRels}

\* the rel_whitelist arguments of run_recipe
PipelineWhitelists == {AllKinds, ListOf({}), ListOf({"contained_in"})}

\* ------------------------------------------------------------------
\* The state machine
\* ------------------------------------------------------------------

VARIABLES
    pc,            \* the stage to run next, or "done" / "failed"
    trace,         \* the stages that ran, in order
    parsed,        \* the parser's output
    doc,           \* the Document
    diags,         \* the diagnostics of the raised TypeCheckError
    failure,       \* the exception that left run_recipe
    rel_whitelist, \* the allow-list given to the graph
    ifc,           \* the IFCModel
    graph,         \* the SemanticGraph
    selected,      \* the nodes the views selected
    rows,          \* the rows evaluate returned
    artifacts,     \* the ExportResults
    manifest,      \* the manifest written
    op_args,       \* the operator and operands of an operator application
    op_result      \* its result

vars ==
    <<pc, trace, parsed, doc, diags, failure, rel_whitelist, ifc, graph, selected, rows,
      artifacts, manifest, op_args, op_result>>

Stages == <<"parse", "ast", "typecheck", "load", "graph", "evaluate", "export", "manifest">>

NoFailure == [kind |-> "", stage |-> "", cause |-> ""]

Failure(kind, stage, cause) == [kind |-> kind, stage |-> stage, cause |-> cause]

\* everything empty except the listed starting point
Blank(at) ==
    /\ pc = at
    /\ trace = <<>>
    /\ diags = <<>>
    /\ failure = NoFailure
    /\ selected = <<>>
    /\ rows = <<>>
    /\ artifacts = <<>>
    /\ manifest = Absent
    /\ op_result = Absent

\* 1) parsed, recipe_text = _parse_recipe(recipe_path)
run_parse ==
    /\ pc = "parse"
    /\ trace' = Append(trace, "parse")
    /\ \/ \E p \in PipelineInputs : parsed' = p /\ pc' = "ast" /\ failure' = failure
       \/ /\ parsed' = parsed
          /\ pc' = "failed"
          /\ failure' = Failure("RunError", "parse", "RecipeParseError")
       \/ /\ parsed' = parsed
          /\ pc' = "failed"
          /\ failure' = Failure("RunError", "parse", "Exception")
    /\ UNCHANGED <<doc, diags, rel_whitelist, ifc, graph, selected, rows, artifacts, manifest,
                   op_args, op_result>>

\* 2) doc = Document.from_parsed(parsed)
run_ast ==
    /\ pc = "ast"
    /\ trace' = Append(trace, "ast")
    /\ LET outcome(r) ==
               IF r.ok
               THEN doc' = r.val /\ pc' = "typecheck" /\ failure' = failure
               ELSE doc' = doc /\ pc' = "failed" /\ failure' = Failure(r.exc, "ast", "")
       IN  outcome(Document_from_parsed(parsed))
    /\ UNCHANGED <<parsed, diags, rel_whitelist, ifc, graph, selected, rows, artifacts,
                   manifest, op_args, op_result>>

\* 3) _typecheck(doc)
run_typecheck ==
    /\ pc = "typecheck"
    /\ trace' = Append(trace, "typecheck")
    /\ LET outcome(r) ==
               IF r.ok
               THEN diags' = diags /\ pc' = "load" /\ failure' = failure
               ELSE /\ diags' = r.diagnostics
                    /\ pc' = "failed"
                    /\ failure' = Failure(r.exc, "typecheck", "TypeCheckError")
       IN  outcome(_typecheck(doc))
    /\ UNCHANGED <<parsed, doc, rel_whitelist, ifc, graph, selected, rows, artifacts,
                   manifest, op_args, op_result>>

\* 4) ifc = IFCModel(model_path)
run_load ==
    /\ pc = "load"
    /\ trace' = Append(trace, "load")
    /\ \/ \E m \in PipelineModels : ifc' = m /\ pc' = "graph" /\ failure' = failure
       \/ ifc' = ifc /\ pc' = "failed" /\ failure' = Failure("OSError", "load", "")
    /\ UNCHANGED <<parsed, doc, diags, rel_whitelist, graph, selected, rows, artifacts,
                   manifest, op_args, op_result>>

\* 5) graph = SemanticGraph(ifc, rel_whitelist=rel_whitelist)
run_graph ==
    /\ pc = "graph"
    /\ trace' = Append(trace, "graph")
    /\ graph' = SemanticGraph(ifc, rel_whitelist)
    /\ pc' = "evaluate"
    /\ UNCHANGED <<parsed, doc, diags, failure, rel_whitelist, ifc, selected, rows, artifacts,
                   manifest, op_args, op_result>>

\* 6) rows = Evaluator(ifc, graph).evaluate(doc)
run_evaluate ==
    /\ pc = "evaluate"
    /\ trace' = Append(trace, "evaluate")
    /\ LET outcome(r) ==
               IF r.ok
               THEN rows' = r.val /\ selected' = r.selected /\ pc' = "export" /\ failure' = failure
               ELSE /\ rows' = rows
                    /\ selected' = selected
                    /\ pc' = "failed"
                    /\ failure' = Failure(r.exc, "evaluate", "")
       IN  outcome(evaluate(Evaluator(ifc, graph), doc))
    /\ UNCHANGED <<parsed, doc, diags, rel_whitelist, ifc, graph, artifacts, manifest,
                   op_args, op_result>>

\* 7) artifacts += _execute_exports(doc, rows, graph, out_dir)
run_export ==
    /\ pc = "export"
    /\ trace' = Append(trace, "export")
    /\ LET outcome(r) ==
               IF r.ok
               THEN artifacts' = r.val /\ pc' = "manifest" /\ failure' = failure
               ELSE /\ artifacts' = artifacts
                    /\ pc' = "failed"
                    /\ failure' = Failure(r.exc, "export", "")
       IN  outcome(_execute_exports(doc, rows, graph))
    /\ UNCHANGED <<parsed, doc, diags, rel_whitelist, ifc, graph, selected, rows, manifest,
                   op_args, op_result>>

\* 8) manifest = _build_manifest(...); export_manifest_json(manifest, manifest_path)
run_manifest ==
    /\ pc = "manifest"
    /\ trace' = Append(trace, "manifest")
    /\ manifest' = _build_manifest(rel_whitelist, graph, rows, artifacts)
    /\ pc' = "done"
    /\ UNCHANGED <<parsed, doc, diags, failure, rel_whitelist, ifc, graph, selected, rows,
                   artifacts, op_args, op_result>>

\* one application of _apply_binop
run_binop ==
    /\ pc = "binop"
    /\ op_result' = _apply_binop(op_args.op, op_args.a, op_args.b)
    /\ pc' = "applied"
    /\ UNCHANGED <<trace, parsed, doc, diags, failure, rel_whitelist, ifc, graph, selected,
                   rows, artifacts, manifest, op_args>>

\* one call of Expr.from_raw
run_from_raw ==
    /\ pc = "from_raw"
    /\ op_result' = Expr_from_raw(op_args)
    /\ pc' = "converted"
    /\ UNCHANGED <<trace, parsed, doc, diags, failure, rel_whitelist, ifc, graph, selected,
                   rows, artifacts, manifest, op_args>>

\* ---- run_recipe from its call to its return or exception ----

Init ==
    /\ Blank("parse")
    /\ rel_whitelist \in {DefaultWhitelist(w) : w \in PipelineWhitelists}
    /\ parsed = Absent /\ doc = Absent /\ ifc = Absent /\ graph = Absent /\ op_args = Absent

Next ==
    \/ run_parse
    \/ run_ast
    \/ run_typecheck
    \/ run_load
    \/ run_graph
    \/ run_evaluate
    \/ run_export
    \/ run_manifest

Spec == Init /\ [][Next]_vars

\* ---- Document.from_parsed on its own ----

InitDoc ==
    /\ Blank("ast")
    /\ parsed \in StructInputs
    /\ rel_whitelist = AllKinds
    /\ doc = Absent /\ ifc = Absent /\ graph = Absent /\ op_args = Absent

SpecDoc == InitDoc /\ [][run_ast]_vars

\* ---- the checker on its own ----

InitCheck ==
    /\ Blank("typecheck")
    /\ doc \in CheckDocs
    /\ rel_whitelist = AllKinds
    /\ parsed = Absent /\ ifc = Absent /\ graph = Absent /\ op_args = Absent

SpecCheck == InitCheck /\ [][run_typecheck]_vars

\* ---- graph construction on its own ----

InitGraph ==
    /\ Blank("graph")
    /\ ifc \in GraphModels
    /\ rel_whitelist \in GraphWhitelists
    /\ parsed = Absent /\ doc = Absent /\ graph = Absent /\ op_args = Absent

SpecGraph == InitGraph /\ [][run_graph]_vars

\* ---- graph construction for the container queries ----

InitChain ==
    /\ Blank("graph")
    /\ ifc \in ChainModels
    /\ rel_whitelist = AllKinds
    /\ parsed = Absent /\ doc = Absent /\ graph = Absent /\ op_args = Absent

SpecChain == InitChain /\ [][run_graph]_vars

\* ---- the evaluator on its own ----

InitEval ==
    /\ Blank("evaluate")
    /\ doc \in EvalDocs
    /\ ifc \in EvalModels
    /\ rel_whitelist = AllKinds
    /\ graph = SemanticGraph(ifc, rel_whitelist)
    /\ parsed = Absent /\ op_args = Absent

SpecEval == InitEval /\ [][run_evaluate]_vars

\* ---- the operators on their own ----

InitOps ==
    /\ Blank("binop")
    /\ op_args \in [op : BinOps, a : OpValues, b : OpValues]
    /\ rel_whitelist = AllKinds
    /\ parsed = Absent /\ doc = Absent /\ ifc = Absent /\ graph = Absent

SpecOps == InitOps /\ [][run_binop]_vars

\* ---- Document.from_parsed and the check on the transformer's dicts ----

InitParsed ==
    /\ Blank("ast")
    /\ parsed \in ParserOutputs
    /\ rel_whitelist = AllKinds
    /\ doc = Absent /\ ifc = Absent /\ graph = Absent /\ op_args = Absent

SpecParsed == InitParsed /\ [][run_ast \/ run_typecheck]_vars

\* ---- Expr.from_raw on its own ----

InitExpr ==
    /\ Blank("from_raw")
    /\ op_args \in RawExprInputs
    /\ rel_whitelist = AllKinds
    /\ parsed = Absent /\ doc = Absent /\ ifc = Absent /\ graph = Absent

SpecExpr == InitExpr /\ [][run_from_raw]_vars

\* ------------------------------------------------------------------
\* Properties
\* ------------------------------------------------------------------

IsPrefix(s, t) == Len(s) <= Len(t) /\ \A i \in 1..Len(s) : s[i] = t[i]

\* the number of positions of s holding d
Count(d, s) == Cardinality({i \in 1..Len(s) : s[i] = d})

\* the number of positions of s satisfying p
CountIf(s, p(_)) == Cardinality({i \in 1..Len(s) : p(s[i])})

LaterStages == {"load", "graph", "evaluate", "export", "manifest"}

\* C1: the stages of run_recipe run at most once each and in the order parse,
\* ast, typecheck, load, graph, evaluate, export, manifest; when parsing fails,
\* when Document.from_parsed fails on the parsed input, or when any check
\* yields a diagnostic for the document, the run has failed and none of load,
\* graph, evaluate, export, manifest runs.
C1_FailFastChain ==
    /\ IsPrefix(trace, Stages)
    /\ failure.stage \in {"parse", "ast", "typecheck"} => Range(trace) \cap LaterStages = {}
    /\ failure.stage = "parse" => trace = <<"parse">>
    /\ ("ast" \in Range(trace) /\ ~Document_from_parsed(parsed).ok)
           => (pc = "failed" /\ trace = <<"parse", "ast">>)
    /\ ("typecheck" \in Range(trace) /\ CollectDiagnostics(doc) # <<>>)
           => (pc = "failed" /\ trace = <<"parse", "ast", "typecheck">>)

\* a run stopped by the check, with its diagnostics, after parse and ast
C1_Witness ==
    /\ pc = "failed"
    /\ failure.stage = "typecheck"
    /\ diags # <<>>
    /\ trace = <<"parse", "ast", "typecheck">>

\* source, derive or a non-empty export list is missing from the parsed dict
MissingRequired(p) ==
    \/ ~Has(p, "source")
    \/ ~Has(p, "derive")
    \/ ~Has(p, "exports")
    \/ Get(p, "exports", <<>>) = <<>>

CheckOutputs(d) ==
    <<_check_source(d.source)>>
    \o [i \in 1..Len(d.views) |-> _check_view(d.views[i], i - 1)]
    \o <<_check_derive(d.derive)>>
    \o (IF IsBlock(d.synthesize) THEN <<_check_synthesize(d.synthesize)>> ELSE <<>>)
    \o (IF IsBlock(d.split) THEN <<_check_split(d.split)>> ELSE <<>>)
    \o [i \in 1..Len(d.exports) |-> _check_export(d.exports[i], i - 1)]
    \o <<_check_known_functions(d)>>

\* the raised list holds x as often as the checks together produced it
SameCounts(raised, outs) ==
    \A x \in Range(raised) \cup UNION {Range(outs[i]) : i \in 1..Len(outs)} :
        Count(x, raised) = SumSeq([i \in 1..Len(outs) |-> Count(x, outs[i])])

RECURSIVE Occurrences(_, _)
Occurrences(f, e) ==
    LET in_(x)    == Occurrences(f, x)
        in_part(p) == IF p.kind = "index" THEN Occurrences(f, p.expr) ELSE 0
    IN  CASE e.kind = "call" ->
                (IF e.data.fn = f THEN 1 ELSE 0) + SumSeq(MapSeq(e.data.args, in_))
          [] e.kind = "binop" -> Occurrences(f, e.data.left) + Occurrences(f, e.data.right)
          [] e.kind = "unop" -> Occurrences(f, e.data.value)
          [] e.kind = "access" -> SumSeq(MapSeq(e.data.parts, in_part))
          [] OTHER -> 0

\* the expressions of a statement: its expr and, for a by statement, its arguments
StmtExprs(st) ==
    (IF Has(st.data, "expr") THEN <<st.data.expr>> ELSE <<>>)
    \o (IF st.kind = "by" THEN st.data.args ELSE <<>>)

BlocksOf(d) ==
    <<d.source>> \o d.views \o <<d.derive>>
    \o (IF IsBlock(d.synthesize) THEN <<d.synthesize>> ELSE <<>>)
    \o (IF IsBlock(d.split) THEN <<d.split>> ELSE <<>>)
    \o d.exports

\* the calls of f in the expressions of the statements of kind sk in the blocks of kind bk
OccurrencesIn(d, bk, sk, f) ==
    LET in_expr(e)   == Occurrences(f, e)
        in_stmt(st)  == IF st.kind = sk THEN SumSeq(MapSeq(StmtExprs(st), in_expr)) ELSE 0
        in_block(b)  == IF b.kind = bk THEN SumSeq(MapSeq(b.statements, in_stmt)) ELSE 0
    IN  SumSeq(MapSeq(BlocksOf(d), in_block))

\* the (block kind, statement kind) pairs of the statements of a document
KindsIn(d) ==
    UNION {{<<BlocksOf(d)[i].kind, BlocksOf(d)[i].statements[j].kind>> :
                j \in 1..Len(BlocksOf(d)[i].statements)} : i \in 1..Len(BlocksOf(d))}

\* the function names of the checked documents
NamesUsed == CallNames \cup {"ifc.type", "synth.custom", "hash", "bogus"}

\* C4: every FN001 diagnostic names a function of the document and the block
\* kind and statement kind of one of its statements; for the statements of
\* each kind in the blocks of each kind, the number of FN001 diagnostics naming
\* a function equals the number of calls of that function in their expressions
\* (in call arguments, operands and index sub-expressions, a repeated name
\* counted per occurrence) when the function is not in the catalog, and is
\* zero when it is; one such call fails the check.
C4_UnknownCallCount ==
    trace = <<"typecheck">> =>
        /\ \A i \in 1..Len(diags) :
               diags[i].code = "FN001" =>
                   /\ diags[i].fn \in NamesUsed
                   /\ <<diags[i].block, diags[i].stmt_kind>> \in KindsIn(doc)
        /\ \A q \in KindsIn(doc), f \in NamesUsed :
               LET is_fn001(x) == /\ x.code = "FN001" /\ x.fn = f
                                  /\ x.block = q[1] /\ x.stmt_kind = q[2]
                   expected    == IF f \in BUILTIN_FUNCTIONS_V01 THEN 0
                                  ELSE OccurrencesIn(doc, q[1], q[2], f)
               IN  /\ CountIf(diags, is_fn001) = expected
                   /\ expected > 0 => pc = "failed"

\* the check failed on an expression with a call nested in a call argument:
\* more unknown calls than statements
C4_Witness ==
    /\ trace = <<"typecheck">>
    /\ pc = "failed"
    /\ \E i \in 1..Len(doc.derive.statements) :
           /\ Has(doc.derive.statements[i].data, "expr")
           /\ doc.derive.statements[i].data.expr.kind = "call"
           /\ doc.derive.statements[i].data.expr.data.fn = "foo"
           /\ Occurrences("foo", doc.derive.statements[i].data.expr) >= 3

\* every edge of the index idx (a dict of edge lists) is filed under its own
\* end(e) and joins two indexed, non-empty ids
WellFiled(g, idx, end(_)) ==
    \A i \in 1..Len(idx) : \A j \in 1..Len(idx[i].val) :
        LET e == idx[i].val[j]
        IN  /\ end(e) = idx[i].key
            /\ e.source # "" /\ e.target # ""
            /\ DictHas(g._nodes, e.source) /\ DictHas(g._nodes, e.target)

SourceOf(e) == e.source

TargetOf(e) == e.target

\* C5: in a built graph both endpoints of every edge of the out-index and of
\* the in-index are non-empty ids of the node index, every edge is filed under
\* its source in the out-index and under its target in the in-index, and it
\* occurs as often in the one as in the other.
C5_EdgeEndpointsIndexed ==
    pc = "evaluate" =>
        /\ WellFiled(graph, graph._out, SourceOf)
        /\ WellFiled(graph, graph._in, TargetOf)
        /\ \A e \in Range(Concat(DictValues(graph._out))) \cup Range(Concat(DictValues(graph._in))) :
               Count(e, DictGet(graph._out, e.source, <<>>))
                   = Count(e, DictGet(graph._in, e.target, <<>>))

\* the pairs a relationship record of category c asks to link
PairsOf(c, r) ==
    IF c \in OneToManyCategories THEN RelatedToRelating(r) ELSE OneToOne(r)

\* a built graph that stored an edge and dropped a pair with an unindexed endpoint
C5_Witness ==
    /\ pc = "evaluate"
    /\ edge_list(graph) # <<>>
    /\ \E c \in RelCategories : \E i \in 1..Len(ifc.rels[c]) :
           \E q \in Range(PairsOf(c, ifc.rels[c][i])) :
               ~DictHas(graph._nodes, q[1]) \/ ~DictHas(graph._nodes, q[2])

NoRepeats(s) == \A i, j \in 1..Len(s) : i # j => s[i] # s[j]

\* the first entity of the list that carries the id
FirstWith(entities, guid) ==
    entities[CHOOSE i \in 1..Len(entities) :
                 /\ entities[i].GlobalId = guid
                 /\ \A j \in 1..(i - 1) : entities[j].GlobalId # guid]

\* C6: in a built graph no id occurs twice in the node index nor twice in the
\* per-type index; an id carried by model entities is indexed with the type of
\* the first such entity and filed under that type only; the empty id and ids
\* of no entity are not indexed.
C6_UniqueNodesFirstWins ==
    pc = "evaluate" =>
        /\ NoRepeats(DictKeys(graph._nodes))
        /\ NoRepeats(DictKeys(graph._by_type))
        /\ NoRepeats(Concat(DictValues(graph._by_type)))
        /\ ~DictHas(graph._nodes, "")
        /\ \A guid \in Guids :
               IF \E i \in 1..Len(ifc.entities) : ifc.entities[i].GlobalId = guid
               THEN /\ node(graph, guid) = NodeRef(guid, FirstWith(ifc.entities, guid).is_a)
                    /\ \A t \in Types :
                           Count(guid, DictGet(graph._by_type, t, <<>>))
                               = IF t = FirstWith(ifc.entities, guid).is_a THEN 1 ELSE 0
               ELSE ~DictHas(graph._nodes, guid)

\* a graph built from two entities that share an id and differ in type
C6_Witness ==
    /\ pc = "evaluate"
    /\ Len(ifc.entities) = 2
    /\ ifc.entities[1].GlobalId = ifc.entities[2].GlobalId
    /\ ifc.entities[1].is_a # ifc.entities[2].is_a
    /\ Len(graph._nodes) = 1

KindMatches(e, k) == k = KIND_NONE \/ e.kind = k

\* the ends of edges of the whole graph that lie on n: a self-loop has two
EndsOn(g, n, k) ==
    LET from_n(e) == e.source = n /\ KindMatches(e, k)
        to_n(e)   == e.target = n /\ KindMatches(e, k)
    IN  CountIf(edge_list(g), from_n) + CountIf(edge_list(g), to_n)

\* C7: in a built graph, for every id n (of the graph or not) and every kind
\* filter k (none included), degree(n, k) is the number of edges out_edges(n, k)
\* returns plus the number in_edges(n, k) returns, which is the number of edge
\* ends on n (two for a self-loop), and 0 for an id that is not in the graph.
C7_DegreeIsOutPlusIn ==
    pc = "evaluate" =>
        \A n \in Guids \cup {"g9"}, k \in EdgeKinds \cup {KIND_NONE} :
            /\ degree(graph, n, k) = Len(out_edges(graph, n, k)) + Len(in_edges(graph, n, k))
            /\ degree(graph, n, k) = EndsOn(graph, n, k)
            /\ ~DictHas(graph._nodes, n) => degree(graph, n, k) = 0

\* a built graph with a self-loop of one kind and an edge of another kind on one node
C7_Witness ==
    /\ pc = "evaluate"
    /\ \E e, d \in Range(edge_list(graph)) :
           /\ e.source = e.target
           /\ d.kind # e.kind
           /\ d.source = e.source
           /\ degree(graph, e.source, e.kind) = 2
           /\ degree(graph, e.source, KIND_NONE) >= 3

\* the nodes carrying the type tag t, in index order
NodesTagged(g, t) ==
    LET tagged(n) == n.ifc_type = t
    IN  SelectSeq(nodes(g), tagged)

\* the statements of a view as the claim C8 reads them: select replaces the
\* candidates by the nodes of its target type, where filters the candidates
RECURSIVE SelectThenFilter(_, _, _)
SelectThenFilter(self, stmts, current) ==
    IF stmts = <<>> THEN current
    ELSE LET stmt == Head(stmts)
         IN  IF stmt.kind = "select"
             THEN SelectThenFilter(self, Tail(stmts), NodesTagged(self.graph, stmt.data.target))
             ELSE IF stmt.kind = "where"
             THEN SelectThenFilter(self, Tail(stmts), FilterWhere(self, stmt.data.expr, current).val)
             ELSE SelectThenFilter(self, Tail(stmts), current)

GuidsOf(ns) == [i \in 1..Len(ns) |-> ns[i].guid]

\* the first position of x in s
FirstIndex(s, x) == CHOOSE i \in 1..Len(s) : s[i] = x /\ \A j \in 1..(i - 1) : s[j] # x

\* sel lists the ids of cat once each, ordered by their first position in cat
FirstSeenOrder(sel, cat) ==
    /\ NoRepeats(sel)
    /\ Range(sel) = Range(cat)
    /\ \A i, j \in 1..Len(sel) : i < j => FirstIndex(cat, sel[i]) < FirstIndex(cat, sel[j])

\* the results of the views of the document, concatenated in declaration order
ViewsConcatenated(self, d) ==
    LET of_(view) == ViewResult(self, view).val
    IN  Concat(MapSeq(d.views, of_))

\* C9: the final selection over one or more views holds no node id twice,
\* holds exactly the nodes of the per-view results, and is ordered by first
\* occurrence in the concatenation of the per-view results in declaration
\* order; each selected node is the graph's node of that id. (Without views
\* the selection is the node index.)
C9_FirstSeenSelection ==
    pc = "export" =>
        IF doc.views = <<>> THEN selected = nodes(graph)
        ELSE /\ FirstSeenOrder(GuidsOf(selected),
                               GuidsOf(ViewsConcatenated(Evaluator(ifc, graph), doc)))
             /\ \A i \in 1..Len(selected) : selected[i] = node(graph, selected[i].guid)

\* two views selected the same node and another node follows in the selection
C9_Witness ==
    /\ pc = "export"
    /\ Len(doc.views) = 2
    /\ Len(selected) = 2
    /\ Len(ViewsConcatenated(Evaluator(ifc, graph), doc)) >= 3
    /\ ViewResult(Evaluator(ifc, graph), doc.views[1]).val # <<>>
    /\ selected # ViewResult(Evaluator(ifc, graph), doc.views[1]).val

\* a right operand that equals zero: 0, 0.0 or False
IsZero(v) == v \in {Int_(0), Float(0), Bool(FALSE)}

\* C10: a division whose right operand is zero gives None and does not raise,
\* whatever the left operand is.
C10_DivisionByZeroIsNull ==
    (pc = "applied" /\ op_args.op = "/" /\ IsZero(op_args.b)) => op_result = Ok(None)

\* a division of a non-number by 0.0 that gave None
C10_Witness ==
    /\ pc = "applied"
    /\ op_args.op = "/"
    /\ op_args.b = Float(0)
    /\ op_args.a.t = "str"
    /\ op_result = Ok(None)

\* the entities of the model carry pairwise different, non-empty ids
UniquelyIdentified(model) ==
    /\ \A i \in 1..Len(model.entities) : model.entities[i].GlobalId # ""
    /\ \A i, j \in 1..Len(model.entities) :
           i # j => model.entities[i].GlobalId # model.entities[j].GlobalId

\* C11: evaluating the recipe without views whose derive block is x = 1+2;
\* (as parsed and built) over a model of n uniquely identified entities gives
\* n rows, the i-th holding the id of the i-th entity and x = 3.
C11_ConstantFeatureRows ==
    (trace = <<"evaluate">> /\ doc = DocOf(RecipeXOnePlusTwo) /\ UniquelyIdentified(ifc)) =>
        /\ pc = "export"
        /\ Len(rows) = Len(ifc.entities)
        /\ \A i \in 1..Len(rows) :
               /\ DictGet(rows[i], "guid", None) = Str(<<ifc.entities[i].GlobalId>>)
               /\ DictHas(rows[i], "x")
               /\ PyEq(DictGet(rows[i], "x", None), Int_(3))

\* the (element, container) pairs of the containment edges of a graph
ContainmentPairs(g) ==
    {<<e.source, e.target>> : e \in {x \in Range(edge_list(g)) : x.kind = "contained_in"}}

\* some id reaches itself along containment edges
ContainmentCycle(g) ==
    \E p \in SeqsUpTo(ChainGuids, Cardinality(ChainGuids)) :
        /\ p # <<>>
        /\ \A i \in 1..(Len(p) - 1) : <<p[i], p[i + 1]>> \in ContainmentPairs(g)
        /\ <<p[Len(p)], p[1]>> \in ContainmentPairs(g)

\* c1 = contained_in(n), c2 = contained_in(c1), ... up to the first node
\* without container, at most k of them
RECURSIVE Ancestors(_, _, _)
Ancestors(g, n, k) ==
    IF k = 0 \/ contained_in(g, n) = NoNode THEN <<>>
    ELSE <<contained_in(g, n)>> \o Ancestors(g, contained_in(g, n).guid, k - 1)

\* C12: in a built graph without containment cycle, container_chain(n) is the
\* sequence contained_in(n), contained_in(contained_in(n)), ... up to the first
\* node without container, and contained_in(m) is None exactly when m has no
\* outgoing containment edge.
C12_ChainIsIteratedContainer ==
    (pc = "evaluate" /\ ~ContainmentCycle(graph)) =>
        \A n \in ChainGuids \cup {"g9"} :
            /\ container_chain(graph, n) = Ancestors(graph, n, Cardinality(ChainGuids))
            /\ (contained_in(graph, n) = NoNode)
                   <=> ~(\E q \in ContainmentPairs(graph) : q[1] = n)

\* g1 lies in g2, g2 in g3, g3 in nothing; g1 has a second container recorded later
C12_Witness ==
    /\ pc = "evaluate"
    /\ ~ContainmentCycle(graph)
    /\ GuidsOf(container_chain(graph, "g1")) = <<"g2", "g3">>
    /\ container_chain(graph, "g2") = <<node(graph, "g3")>>
    /\ contained_in(graph, "g3") = NoNode
    /\ <<"g1", "g3">> \in ContainmentPairs(graph)

\* C13: in every built graph, with or without containment cycles and
\* self-loops, container_chain(n) is a list that does not hold n.
C13_ChainExcludesStart ==
    pc = "evaluate" =>
        \A n \in ChainGuids : n \notin Range(GuidsOf(container_chain(graph, n)))

\* C14: for every allow-list given to graph construction, the empty list
\* included, every edge of the built graph has a kind of the list.
C14_OnlyListedKinds ==
    (pc = "evaluate" /\ ~rel_whitelist.isnone) =>
        \A e \in Range(edge_list(graph)) : e.kind \in rel_whitelist.kinds

\* the call names of an expression that evaluation comes to: those of its
\* calls, call arguments and operands, not those inside an access chain, whose
\* index expressions are never evaluated
RECURSIVE CallsReached(_)
CallsReached(e) ==
    IF e.kind = "call"
    THEN {e.data.fn} \cup UNION {CallsReached(e.data.args[i]) : i \in 1..Len(e.data.args)}
    ELSE IF e.kind = "binop" THEN CallsReached(e.data.left) \cup CallsReached(e.data.right)
    ELSE IF e.kind = "unop" THEN CallsReached(e.data.value)
    ELSE {}

\* the call names of the feature statements of the derive block of d
DeriveCalls(d) ==
    UNION {CallsReached(d.derive.statements[i].data.expr) :
               i \in {j \in 1..Len(d.derive.statements) : d.derive.statements[j].kind = "feature"}}

\* C15: when a feature of the derive block calls a name outside the dispatch
\* table and there is a node to evaluate it for, evaluation fails with
\* EvaluationError, for names in the checker's catalog and for names outside
\* it alike, and evaluate returns no rows.
C15_UndispatchedCallAborts ==
    (trace = <<"evaluate">> /\ doc.views = <<>> /\ nodes(graph) # <<>>
         /\ DeriveCalls(doc) \ DispatchTable # {}) =>
        /\ pc = "failed"
        /\ failure.kind = "EvaluationError"
        /\ rows = <<>>

\* evaluation failed over two nodes on a catalog function that is not
\* dispatched, declared after a feature that evaluates
C15_Witness ==
    /\ trace = <<"evaluate">>
    /\ pc = "failed"
    /\ Len(nodes(graph)) = 2
    /\ doc.views = <<>>
    /\ Len(doc.derive.statements) = 2
    /\ DeriveCalls(doc) = {"ifc.type", "hash"}
    /\ "hash" \in BUILTIN_FUNCTIONS_V01
    /\ doc.derive.statements[2].data.name = "h"
    /\ rows = <<>>

\* the recipes of the pipeline that Document.from_parsed accepts
BuiltInputs == {p \in PipelineInputs : Document_from_parsed(p).ok}

\* the error kinds of the structural-validation failures of the pipeline's recipes
StructureFailureKinds ==
    {Document_from_parsed(p).exc : p \in PipelineInputs \ BuiltInputs}

\* the error kinds of the type-check failures of the pipeline's recipes
TypecheckFailureKinds ==
    {_typecheck(DocOf(p)).exc : p \in {q \in BuiltInputs : ~_typecheck(DocOf(q)).ok}}

\* the error kinds of the export failures of the pipeline's recipes (no rows, no edges)
ExportFailureKinds ==
    {_execute_exports(DocOf(p), <<>>, SemanticGraph(IFCModel(<<>>, NoRels), AllKinds)).exc :
         p \in {q \in BuiltInputs :
                    ~_execute_exports(DocOf(q), <<>>,
                                      SemanticGraph(IFCModel(<<>>, NoRels), AllKinds)).ok}}

\* C16: the error kind of a failed run tells its failure class: a parse
\* failure has a kind that no structural, type-check or execution failure
\* has, a structural failure a kind that no type-check or execution failure
\* has, and a type-check failure a kind that no execution failure has and
\* comes with its diagnostics.
C16_FailureKindsDistinct ==
    /\ failure.stage = "parse" =>
           failure.kind \notin StructureFailureKinds \cup TypecheckFailureKinds
                                   \cup ExportFailureKinds
    /\ failure.stage = "ast" =>
           failure.kind \notin TypecheckFailureKinds \cup ExportFailureKinds
    /\ failure.stage = "typecheck" =>
           failure.kind \notin ExportFailureKinds /\ diags # <<>>

\* the block has no statement of the kind
Lacks(block, kind) == \A i \in 1..Len(block.statements) : block.statements[i].kind # kind

\* C17: the check reports SRC001 once when the source block has no path
\* statement and not otherwise; for every export block it reports EXP001 once
\* when the block has no format statement and not otherwise, and EXP002 once
\* when it has no path statement and not otherwise; when each of the k export
\* blocks lacks both there are 2k export diagnostics.
C17_SourceAndExportDiagnostics ==
    trace = <<"typecheck">> =>
        LET src001(x)  == x.code = "SRC001"
            export_(x) == x.code \in {"EXP001", "EXP002"}
        IN  /\ CountIf(diags, src001) = (IF Lacks(doc.source, "path") THEN 1 ELSE 0)
            /\ \A j \in 1..Len(diags) :
                   export_(diags[j]) => diags[j].idx \in 0..(Len(doc.exports) - 1)
            /\ \A i \in 1..Len(doc.exports) :
                   LET exp001(x) == x.code = "EXP001" /\ x.idx = i - 1
                       exp002(x) == x.code = "EXP002" /\ x.idx = i - 1
                   IN  /\ CountIf(diags, exp001) =
                              (IF Lacks(doc.exports[i], "format") THEN 1 ELSE 0)
                       /\ CountIf(diags, exp002) =
                              (IF Lacks(doc.exports[i], "path") THEN 1 ELSE 0)
            /\ (\A i \in 1..Len(doc.exports) :
                    Lacks(doc.exports[i], "format") /\ Lacks(doc.exports[i], "path"))
                   => CountIf(diags, export_) = 2 * Len(doc.exports)

\* two export blocks that lack both statements and a source block that has
\* statements but no path: four export diagnostics and SRC001
C17_Witness ==
    /\ trace = <<"typecheck">>
    /\ pc = "failed"
    /\ Len(doc.exports) = 2
    /\ \A i \in 1..2 : doc.exports[i].statements = <<>>
    /\ doc.source.statements # <<>>
    /\ Len(diags) = 5

\* the features nested in the grouping statements of a block
NestedFeatures(block) ==
    LET grouping(st) == st.kind \in {"node_features", "edge_features"}
        nested(st)   == st.data.features
    IN  Concat(MapSeq(SelectSeq(block.statements, grouping), nested))

\* C18: when the expression of a feature nested in a node_features or
\* edge_features statement calls a function that is not in the catalog, the
\* check reports FN001 for that function and fails.
C18_NestedFeatureCallsChecked ==
    trace = <<"typecheck">> =>
        \A b \in Range(BlocksOf(doc)) : \A ft \in Range(NestedFeatures(b)) :
            \A f \in NamesUsed \ BUILTIN_FUNCTIONS_V01 :
                (Has(ft.data, "expr") /\ Occurrences(f, ft.data.expr) > 0) =>
                    /\ pc = "failed"
                    /\ \E i \in 1..Len(diags) : diags[i].code = "FN001" /\ diags[i].fn = f

\* C19: in the synthesize block, an assign, feature or emit statement whose
\* expression calls at least one function outside the synth. prefix is
\* reported with SYN001, and one whose expression calls functions under the
\* prefix only is not.
C19_NonSynthCallsFlagged ==
    (trace = <<"typecheck">> /\ IsBlock(doc.synthesize)) =>
        \A st \in Range(doc.synthesize.statements) :
            (st.kind \in {"assign", "feature", "emit"} /\ Has(st.data, "expr")) =>
                LET reported ==
                        \E i \in 1..Len(diags) :
                            /\ diags[i].code = "SYN001"
                            /\ diags[i].stmt_kind = st.kind
                            /\ diags[i].stmt_name = Get(st.data, "name", "")
                    other(f) == Occurrences(f, st.data.expr) > 0
                IN  /\ (\E f \in NamesUsed \ SynthPrefixed : other(f)) => reported
                    /\ (/\ \E f \in NamesUsed : other(f)
                        /\ \A f \in NamesUsed \ SynthPrefixed : ~other(f)) => ~reported

\* the feature statements of a derive block
FeatureStmts(block) ==
    LET is_feature(st) == st.kind = "feature"
    IN  SelectSeq(block.statements, is_feature)

\* the names of a sequence of feature statements, each at its first declaration
RECURSIVE FirstDeclared(_, _)
FirstDeclared(fs, seen) ==
    IF fs = <<>> THEN <<>>
    ELSE IF Head(fs).data.name \in seen THEN FirstDeclared(Tail(fs), seen)
    ELSE <<Head(fs).data.name>> \o FirstDeclared(Tail(fs), seen \cup {Head(fs).data.name})

\* C20: when evaluate returns, there is one row per selected node, in the
\* order of the selection; the row starts with the key guid and then has one
\* entry per further feature name of the derive block, in the order of first
\* declaration; an entry holds the value, on the row's node, of the last
\* feature statement declaring its name, and the key guid holds the node's id
\* when no feature declares it; the statements that are not feature
\* statements leave no entry.
C20_RowsFollowSelectionAndFeatures ==
    (trace = <<"evaluate">> /\ pc = "export") =>
        LET fs == FeatureStmts(doc.derive)
            last_of(name) ==
                fs[CHOOSE k \in 1..Len(fs) :
                       /\ fs[k].data.name = name
                       /\ \A m \in (k + 1)..Len(fs) : fs[m].data.name # name]
            value_of(name, n) == _eval_expr(Evaluator(ifc, graph), last_of(name).data.expr, n).val
        IN  /\ Len(rows) = Len(selected)
            /\ \A i \in 1..Len(rows) :
                   /\ DictKeys(rows[i]) = <<"guid">> \o FirstDeclared(fs, {"guid"})
                   /\ \A j \in 1..Len(rows[i]) :
                          rows[i][j].val =
                              (IF \E k \in 1..Len(fs) : fs[k].data.name = rows[i][j].key
                               THEN value_of(rows[i][j].key, selected[i])
                               ELSE Str(<<selected[i].guid>>))

\* two rows from a derive block that declares the feature t twice, the
\* second declaration giving another value than the first
C20_Witness ==
    /\ trace = <<"evaluate">>
    /\ pc = "export"
    /\ Len(rows) >= 2
    /\ Len(FeatureStmts(doc.derive)) = 2
    /\ \A k \in 1..2 : FeatureStmts(doc.derive)[k].data.name = "t"
    /\ \E i \in 1..Len(rows) :
           DictGet(rows[i], "t", None) #
               _eval_expr(Evaluator(ifc, graph), FeatureStmts(doc.derive)[1].data.expr,
                          selected[i]).val

\* the numbers among the operand values
NumericOperands == {v \in OpValues : v.t = "num"}

\* C21: applying a binary operator of the parser (+ - * / % == != < > <= >=
\* and or) to two numbers, or a unary operator (not, -) to a number, never
\* ends in the evaluator's unsupported-operator failure.
C21_ParserOperatorsImplemented ==
    /\ (pc = "applied" /\ op_args.a \in NumericOperands /\ op_args.b \in NumericOperands) =>
           (op_result.ok \/ op_result.exc # "EvaluationError")
    /\ pc = "applied" =>
           \A op \in {"not", "-"} :
               _apply_unop(op, op_args.a).ok \/ op_args.a \notin NumericOperands

\* the expression kinds of the literals that Expr.from_raw builds
LiteralKinds == {"number", "string", "bool", "null"}

\* C22: evaluating a document without views whose features are literals
\* (number, string, bool, null) does not fail, and every row holds under the
\* feature's name the value stored in the literal.
C22_LiteralsEvaluate ==
    (/\ trace = <<"evaluate">>
     /\ doc.views = <<>>
     /\ \A st \in Range(doc.derive.statements) :
            st.kind = "feature" /\ st.data.expr.kind \in LiteralKinds) =>
        /\ pc = "export"
        /\ \A i \in 1..Len(rows) : \A st \in Range(doc.derive.statements) :
               DictHas(rows[i], st.data.name)
               /\ DictGet(rows[i], st.data.name, None) = st.data.expr.data.value

\* the parts of the chain after its base name
FieldParts(expr) == Tail(expr.data.parts)

\* C23: evaluating a document without views whose one feature is an access
\* chain does not fail; when the chain has named parts only, every row holds
\* the attribute of the node's entity named by the last part, and when it has
\* an index part every row holds null.
C23_NamedAccessReadsAttribute ==
    (/\ trace = <<"evaluate">>
     /\ doc.views = <<>>
     /\ Len(doc.derive.statements) = 1
     /\ doc.derive.statements[1].kind = "feature"
     /\ doc.derive.statements[1].data.expr.kind = "access"
     /\ UniquelyIdentified(ifc)) =>
        LET expr == doc.derive.statements[1].data.expr
            named == \A p \in Range(FieldParts(expr)) : p.kind = "attr"
            last == FieldParts(expr)[Len(FieldParts(expr))]
        IN  /\ pc = "export"
            /\ \A i \in 1..Len(rows) :
                   DictGet(rows[i], "x", NoNode) =
                       (IF named
                        THEN get_attr(entity_by_guid(ifc, selected[i].guid), last.name)
                        ELSE None)

\* C24: Expr.from_raw returns an expression for every raw input and never
\* fails; for a non-map value, a map without a kind tag and an unknown kind
\* tag the expression is the null literal.
C24_ConversionTotal ==
    pc = "converted" =>
        /\ op_result.ok
        /\ IsExpr(op_result.val)
        /\ (~IsDict(op_args) \/ ~Has(op_args, "_expr") \/ op_args._expr \notin ExprKinds)
               => op_result.val = NullExpr

\* the views of the document that have no select statement
ViewsWithoutSelect(d) ==
    {i \in 1..Len(d.views) : Lacks(d.views[i], "select")}

\* C25: in a run whose document has a view without select statement, once
\* the check has run VIEW001 is reported and the run has not failed in the
\* check; once evaluation has run, the nodes that the view's where statements
\* keep from all graph nodes are in the selection.
C25_ViewWithoutSelectEvaluated ==
    ("typecheck" \in Range(trace) /\ ViewsWithoutSelect(doc) # {}) =>
        /\ failure.stage # "typecheck"
        /\ "evaluate" \in Range(trace) =>
               /\ failure.stage # "evaluate"
               /\ \A i \in ViewsWithoutSelect(doc) :
                      \A n \in Range(ViewResult(Evaluator(ifc, graph), doc.views[i]).val) :
                          n \in Range(selected)

\* C26: when the one view of the document is a single select statement,
\* evaluation selects the nodes of the graph that carry the type named by the
\* statement's target.
C26_SelectLooksUpTarget ==
    (/\ trace = <<"evaluate">>
     /\ Len(doc.views) = 1
     /\ Len(doc.views[1].statements) = 1
     /\ doc.views[1].statements[1].kind = "select") =>
        /\ pc = "export"
        /\ Range(selected) =
               Range(NodesTagged(graph, doc.views[1].statements[1].data.target))

\* C27: some dict that the parser builds from recipe text gives a document
\* that passes the check, so that a run can go on to load the model.
C27_SomeParsedRecipePasses ==
    \E p \in ParserOutputs :
        /\ Document_from_parsed(p).ok
        /\ type_check_document(DocOf(p)).ok

\* every run on a dict of the parser ends in the check, with SRC001, DER001
\* and both export diagnostics
ParsedRecipesFail ==
    trace = <<"ast", "typecheck">> =>
        /\ pc = "failed"
        /\ {"SRC001", "DER001", "EXP001", "EXP002"} \subseteq
               {diags[i].code : i \in 1..Len(diags)}

\* C28: for every node of the built graph, the entity that the model returns
\* for the node's id has the type stored in the node.
C28_NodeAndEntityAgree ==
    graph # Absent =>
        \A n \in Range(nodes(graph)) : entity_by_guid(ifc, n.guid).is_a = n.ifc_type

\* C29: every row that evaluate returns holds under the key guid the id of
\* the node it was derived from, and no two rows hold the same id.
C29_RowsKeepNodeId ==
    (trace = <<"evaluate">> /\ pc = "export") =>
        /\ Len(rows) = Len(selected)
        /\ \A i \in 1..Len(rows) : DictGet(rows[i], "guid", None) = Str(<<selected[i].guid>>)
        /\ \A i, j \in 1..Len(rows) :
               i # j => DictGet(rows[i], "guid", None) # DictGet(rows[j], "guid", None)

====
